---- MODULE Spec2Model ----
(***************************************************************************)
(* ONTO-Bench: the leaderboard's Ranking Aggregator (leaderboard/api.py)   *)
(* and the metrics computations (scripts/metrics.py, leaderboard/api.py,   *)
(* enterprise/api.py, scripts/metrics_extended.py, scripts/agreement.py).  *)
(*                                                                         *)
(* Numbers.  Python floats are modelled by exact rationals <<n, d>> with   *)
(* d > 0, kept in lowest terms; round(x, 4) gives an integer count of      *)
(* ten-thousandths; a confidence is an integer count of hundredths.        *)
(* A Python exception is modelled by a result record whose status names    *)
(* the exception; None by the status "None".                               *)
(***************************************************************************)
EXTENDS Integers, Sequences, FiniteSets, TLC

\* ------------------------------------------------------------------------
\* Bounds of the model
\* ------------------------------------------------------------------------

\* submissions begun in one behaviour of the leaderboard
MaxSubmissions == 3

\* ------------------------------------------------------------------------
\* Exact arithmetic standing for Python's float arithmetic
\* ------------------------------------------------------------------------

RECURSIVE Gcd(_, _)
Gcd(a, b) == IF b = 0 THEN a ELSE Gcd(b, a % b)

Abs(x) == IF x < 0 THEN -x ELSE x

\* Python's x / y raises ZeroDivisionError when y is 0: the pair <<0, 0>>, which
\* every operation below hands on, so that a function that divided by zero
\* ends with it.
ZDE == <<0, 0>>

IsNum(x) == x[2] # 0

\* the rational n/d in lowest terms, d > 0
Rat(n, d) ==
    IF d = 0 THEN ZDE
    ELSE LET g == Gcd(Abs(n), Abs(d))
             s == IF d < 0 THEN -1 ELSE 1
         IN  <<(s * n) \div g, (s * d) \div g>>

Zero == <<0, 1>>
One == <<1, 1>>

RAdd(x, y) == Rat(x[1] * y[2] + y[1] * x[2], x[2] * y[2])
RSub(x, y) == Rat(x[1] * y[2] - y[1] * x[2], x[2] * y[2])
RMul(x, y) == Rat(x[1] * y[1], x[2] * y[2])
RDiv(x, y) == Rat(x[1] * y[2], x[2] * y[1])
RAbs(x) == <<Abs(x[1]), x[2]>>
RPos(x) == x[1] > 0
RLess(x, y) == x[1] * y[2] < y[1] * x[2]

\* int / int
IntDiv(n, d) == Rat(n, d)

\* round(x, 4), as a count of ten-thousandths (ties to even, as Python rounds).
\* The value here is the exact quotient: where it lies exactly half way
\* between two ten-thousandths and the float nearest to it does not, Python
\* rounds towards the float's side and the last digit may differ by one.
Round4(x) ==
    LET m == x[1] * 10000
        q == m \div x[2]
        r == m % x[2]
    IN  IF 2 * r < x[2] THEN q
        ELSE IF 2 * r > x[2] THEN q + 1
        ELSE IF q % 2 = 0 THEN q ELSE q + 1

\* sum(...) over a sequence of rationals
RECURSIVE RSum(_)
RSum(s) == IF s = <<>> THEN Zero ELSE RAdd(Head(s), RSum(Tail(s)))

\* sum(1 for ... if cond): the number of indices of s that satisfy Test
Count(s, Test(_)) == Cardinality({i \in 1..Len(s) : Test(s[i])})

Range(s) == {s[i] : i \in 1..Len(s)}

Min(a, b) == IF a < b THEN a ELSE b

\* zip(a, b): pairs up to the shorter length
Zip(a, b) == [i \in 1..Min(Len(a), Len(b)) |-> <<a[i], b[i]>>]

Labels == {"KNOWN", "UNKNOWN", "CONTRADICTION"}

\* sum(...) over a sequence of integers
RECURSIVE SumInt(_)
SumInt(s) == IF s = <<>> THEN 0 ELSE Head(s) + SumInt(Tail(s))

\* ------------------------------------------------------------------------
\* leaderboard/api.py: compute_metrics
\* ------------------------------------------------------------------------

\* lo <= c < hi with lo, hi = i / n_bins, (i + 1) / n_bins; c in hundredths
InBin(c, i, n_bins) == i * 100 <= c * n_bins /\ c * n_bins < (i + 1) * 100

\* the predictions whose id the ground truth holds, in order
LbMatched(predictions, ground_truth) ==
    SelectSeq(predictions, LAMBDA p : p.id \in DOMAIN ground_truth)

\* n / d if d > 0 else 0
LbRatio(n, d) == IF d > 0 THEN IntDiv(n, d) ELSE Zero

\* 2 * p * r / (p + r) if (p + r) > 0 else 0
LbF1(p, r) ==
    IF RPos(RAdd(p, r)) THEN RDiv(RMul(RMul(<<2, 1>>, p), r), RAdd(p, r)) ELSE Zero

\* rows are records [t, p, c]: true label, predicted label, confidence
LbEce(rows) ==
    LET n_bins == 10
        Bin(i) == SelectSeq(rows, LAMBDA r : InBin(r.c, i, n_bins))
        Term(i) ==
            LET b == Bin(i)
                acc == IntDiv(Count(b, LAMBDA r : r.t = r.p), Len(b))
                conf == IntDiv(SumInt([k \in 1..Len(b) |-> b[k].c]), 100 * Len(b))
            IN  IF b = <<>> THEN Zero
                ELSE RDiv(RMul(RAbs(RSub(acc, conf)), <<Len(b), 1>>), <<Len(rows), 1>>)
    IN  RSum([j \in 1..n_bins |-> Term(j - 1)])

\* the rows [t, p, c] (true label, predicted label, confidence) of three
\* parallel lists
Rows(y_true, y_pred, confidences) ==
    [k \in 1..Len(y_true) |-> [t |-> y_true[k], p |-> y_pred[k], c |-> confidences[k]]]

\* the unknown-detection metrics and the accuracy of aligned rows, unrounded
LbClassMetrics(rows) ==
    LET u_tp == Count(rows, LAMBDA r : r.t = "UNKNOWN" /\ r.p = "UNKNOWN")
        u_fp == Count(rows, LAMBDA r : r.t # "UNKNOWN" /\ r.p = "UNKNOWN")
        u_fn == Count(rows, LAMBDA r : r.t = "UNKNOWN" /\ r.p # "UNKNOWN")
        u_precision == LbRatio(u_tp, u_tp + u_fp)
        u_recall == LbRatio(u_tp, u_tp + u_fn)
        u_f1 == LbF1(u_precision, u_recall)
        correct == Count(rows, LAMBDA r : r.t = r.p)
        accuracy == IntDiv(correct, Len(rows))
    IN  [status |-> IF \A x \in {u_precision, u_recall, u_f1, accuracy} : IsNum(x)
                    THEN "ok" ELSE "ZeroDivisionError",
         precision |-> u_precision, recall |-> u_recall, f1 |-> u_f1,
         accuracy |-> accuracy]

LbComputeMetrics(predictions, ground_truth) ==
    LET m == LbMatched(predictions, ground_truth)
        rows == [k \in 1..Len(m) |->
                    [t |-> ground_truth[m[k].id], p |-> m[k].label, c |-> m[k].confidence]]
        cm == LbClassMetrics(rows)
        ece == LbEce(rows)
    IN  IF rows = <<>> THEN [status |-> "ValueError"]
        ELSE IF cm.status # "ok" \/ ~IsNum(ece)
        THEN [status |-> "ZeroDivisionError"]
        ELSE [status |-> "ok",
              u_precision |-> Round4(cm.precision),
              u_recall |-> Round4(cm.recall),
              u_f1 |-> Round4(cm.f1),
              ece |-> Round4(ece),
              accuracy |-> Round4(cm.accuracy),
              n_samples |-> Len(rows)]

\* ------------------------------------------------------------------------
\* enterprise/api.py: compute_metrics
\* ------------------------------------------------------------------------

\* n / d if d > 0 else 0
EntRatio(n, d) == IF d > 0 THEN IntDiv(n, d) ELSE Zero

\* 2 * precision * recall / (precision + recall) if (precision + recall) > 0 else 0
EntF1(p, r) ==
    IF RPos(RAdd(p, r)) THEN RDiv(RMul(RMul(<<2, 1>>, p), r), RAdd(p, r)) ELSE Zero

\* one turn of the per-class loop, unrounded
EntPerClass(rows, label) ==
    LET tp == Count(rows, LAMBDA r : r.t = label /\ r.p = label)
        fp == Count(rows, LAMBDA r : r.t # label /\ r.p = label)
        fn == Count(rows, LAMBDA r : r.t = label /\ r.p # label)
        precision == EntRatio(tp, tp + fp)
        recall == EntRatio(tp, tp + fn)
        f1 == EntF1(precision, recall)
    IN  [status |-> IF \A x \in {precision, recall, f1} : IsNum(x)
                    THEN "ok" ELSE "ZeroDivisionError",
         precision |-> precision, recall |-> recall, f1 |-> f1]

\* ------------------------------------------------------------------------
\* scripts/metrics.py
\* ------------------------------------------------------------------------

\* tp / (tp + fp) with no guard
UnguardedRatio(n, d) == IntDiv(n, d)

\* tp / (tp + fp) if (tp + fp) > 0 else 0.0
BinRatio(n, d) == IF d > 0 THEN IntDiv(n, d) ELSE Zero

\* 2 * precision * recall / (precision + recall) if (precision + recall) > 0 else 0.0
BinF1(p, r) ==
    IF RPos(RAdd(p, r)) THEN RDiv(RMul(RMul(<<2, 1>>, p), r), RAdd(p, r)) ELSE Zero

\* compute_binary_metrics with the roles of the false positives and the
\* false negatives exchanged
BinaryMetricsExchanged(y_true, y_pred) ==
    LET z == Zip(y_true, y_pred)
        tp == Count(z, LAMBDA x : x[1] = 1 /\ x[2] = 1)
        fp == Count(z, LAMBDA x : x[1] = 1 /\ x[2] = 0)
        fn == Count(z, LAMBDA x : x[1] = 0 /\ x[2] = 1)
        precision == BinRatio(tp, tp + fp)
        recall == BinRatio(tp, tp + fn)
        f1 == BinF1(precision, recall)
    IN  [status |-> "ok", precision |-> precision, recall |-> recall, f1 |-> f1]

\* compute_binary_metrics on two lists of 0/1; zip stops at the shorter one
ComputeBinaryMetrics(y_true, y_pred) ==
    LET z == Zip(y_true, y_pred)
        tp == Count(z, LAMBDA x : x[1] = 1 /\ x[2] = 1)
        fp == Count(z, LAMBDA x : x[1] = 0 /\ x[2] = 1)
        fn == Count(z, LAMBDA x : x[1] = 1 /\ x[2] = 0)
        precision == BinRatio(tp, tp + fp)
        recall == BinRatio(tp, tp + fn)
        f1 == BinF1(precision, recall)
    IN  [status |-> IF \A x \in {precision, recall, f1} : IsNum(x)
                    THEN "ok" ELSE "ZeroDivisionError",
         precision |-> precision, recall |-> recall, f1 |-> f1]

\* [1 if l == target else 0 for l in labels]
Binarize(labels, target) ==
    [i \in 1..Len(labels) |-> IF labels[i] = target THEN 1 ELSE 0]

\* compute_metrics after the alignment, up to the macro F1: the UNKNOWN and
\* CONTRADICTION metrics, the accuracy, the macro F1, unrounded
ClassMetrics(y_true_labels, y_pred_labels) ==
    LET u == ComputeBinaryMetrics(Binarize(y_true_labels, "UNKNOWN"),
                                  Binarize(y_pred_labels, "UNKNOWN"))
        c == ComputeBinaryMetrics(Binarize(y_true_labels, "CONTRADICTION"),
                                  Binarize(y_pred_labels, "CONTRADICTION"))
        y_correct == [i \in 1..Len(y_true_labels) |->
                        IF y_true_labels[i] = y_pred_labels[i] THEN 1 ELSE 0]
        accuracy == IntDiv(SumInt(y_correct), Len(y_correct))
        macro_f1 == RDiv(RAdd(u.f1, c.f1), <<2, 1>>)
    IN  [status |-> IF u.status = "ok" /\ c.status = "ok" /\ IsNum(accuracy)
                    THEN "ok" ELSE "ZeroDivisionError",
         u_precision |-> u.precision, u_recall |-> u.recall, u_f1 |-> u.f1,
         c_precision |-> c.precision, c_recall |-> c.recall, c_f1 |-> c.f1,
         accuracy |-> accuracy, macro_f1 |-> macro_f1]

\* np.linspace(0, 1, n_bins + 1)[i] is the float i * (1 / n_bins). Against
\* confidences that are hundredths, and for up to 12 bins, it compares as i /
\* n_bins does but for these bounds, which come out one unit in the last place
\* above the hundredth they stand for: 0.6 with 5 bins, 0.3, 0.6 and 0.7 with 10
BoundIsAbove(i, n_bins) ==
    \/ n_bins = 5 /\ i = 3
    \/ n_bins = 10 /\ i \in {3, 6, 7}

\* bin_bounds[i] <= c < bin_bounds[i + 1]; c in hundredths
ScriptsInBin(c, i, n_bins) ==
    /\ IF BoundIsAbove(i, n_bins) THEN i * 100 < c * n_bins ELSE i * 100 <= c * n_bins
    /\ IF BoundIsAbove(i + 1, n_bins) THEN c * n_bins <= (i + 1) * 100
       ELSE c * n_bins < (i + 1) * 100

\* compute_ece, the bin_samples of each turn of its loop
EceBinSamples(y_correct, confidences, n_bins) ==
    LET z == Zip(y_correct, confidences)
    IN  [j \in 1..n_bins |-> SelectSeq(z, LAMBDA x : ScriptsInBin(x[2], j - 1, n_bins))]

\* compute_ece without the weight len(bin_samples) / len(y_correct)
ComputeEceUnweighted(y_correct, confidences, n_bins) ==
    LET b == EceBinSamples(y_correct, confidences, n_bins)
        Term(j) ==
            IF b[j] = <<>> THEN Zero
            ELSE RAbs(RSub(IntDiv(SumInt([k \in 1..Len(b[j]) |-> b[j][k][1]]), Len(b[j])),
                           IntDiv(SumInt([k \in 1..Len(b[j]) |-> b[j][k][2]]),
                                  100 * Len(b[j]))))
    IN  IF y_correct = <<>> \/ confidences = <<>> THEN Zero
        ELSE RSum([j \in 1..n_bins |-> Term(j)])

\* compute_ece; y_correct holds 0/1, confidences hundredths
ComputeEce(y_correct, confidences, n_bins) ==
    LET z == Zip(y_correct, confidences)
        Bin(i) == SelectSeq(z, LAMBDA x : ScriptsInBin(x[2], i, n_bins))
        Term(i) ==
            LET b == Bin(i)
                bin_acc == IntDiv(SumInt([k \in 1..Len(b) |-> b[k][1]]), Len(b))
                bin_conf == IntDiv(SumInt([k \in 1..Len(b) |-> b[k][2]]), 100 * Len(b))
            IN  IF b = <<>> THEN Zero
                ELSE RMul(IntDiv(Len(b), Len(y_correct)), RAbs(RSub(bin_acc, bin_conf)))
    IN  IF y_correct = <<>> \/ confidences = <<>> THEN Zero
        ELSE RSum([j \in 1..n_bins |-> Term(j - 1)])

\* compute_brier without the division by len(y_correct)
ComputeBrierUndivided(y_correct, confidences) ==
    LET z == Zip(y_correct, confidences)
        Sq(x) == RMul(x, x)
    IN  IF y_correct = <<>> \/ confidences = <<>> THEN Zero
        ELSE RSum([k \in 1..Len(z) |-> Sq(RSub(Rat(z[k][2], 100), <<z[k][1], 1>>))])

\* compute_brier
ComputeBrier(y_correct, confidences) ==
    LET z == Zip(y_correct, confidences)
        Sq(x) == RMul(x, x)
    IN  IF y_correct = <<>> \/ confidences = <<>> THEN Zero
        ELSE RDiv(RSum([k \in 1..Len(z) |-> Sq(RSub(Rat(z[k][2], 100), <<z[k][1], 1>>))]),
                  <<Len(y_correct), 1>>)

\* scripts/eval_harness.py: compute_calibration_error, compute_ece rounded
ComputeCalibrationError(y_true, confidences, n_bins) ==
    Round4(ComputeEce(y_true, confidences, n_bins))

\* an alignment that keeps a prediction the ground truth lacks, with the
\* true label KNOWN
AlignedKeepingUnmatched(predictions, ground_truth) ==
    [k \in 1..Len(predictions) |->
        [t |-> IF predictions[k].sample_id \in DOMAIN ground_truth
               THEN ground_truth[predictions[k].sample_id] ELSE "KNOWN",
         p |-> predictions[k].predicted_label,
         c |-> predictions[k].confidence]]

\* the loop that aligns the predictions with the ground truth: a prediction
\* whose sample_id the ground truth lacks is skipped
ScriptsAligned(predictions, ground_truth) ==
    LET m == SelectSeq(predictions, LAMBDA p : p.sample_id \in DOMAIN ground_truth)
    IN  [k \in 1..Len(m) |->
            [t |-> ground_truth[m[k].sample_id], p |-> m[k].predicted_label,
             c |-> m[k].confidence]]

\* compute_metrics, given what load_predictions returned (latencies are left
\* out); None is the status "None"
ScriptsComputeMetrics(predictions, ground_truth) ==
    LET rows == ScriptsAligned(predictions, ground_truth)
        y_true_labels == [k \in 1..Len(rows) |-> rows[k].t]
        y_pred_labels == [k \in 1..Len(rows) |-> rows[k].p]
        y_correct == [k \in 1..Len(rows) |-> IF rows[k].t = rows[k].p THEN 1 ELSE 0]
        confidences == [k \in 1..Len(rows) |-> rows[k].c]
        cm == ClassMetrics(y_true_labels, y_pred_labels)
        ece == ComputeEce(y_correct, confidences, 10)
        brier == ComputeBrier(y_correct, confidences)
    IN  IF predictions = <<>> \/ rows = <<>> THEN [status |-> "None"]
        ELSE IF cm.status # "ok" \/ ~IsNum(ece) \/ ~IsNum(brier)
        THEN [status |-> "ZeroDivisionError"]
        ELSE [status |-> "ok",
              u_precision |-> Round4(cm.u_precision), u_recall |-> Round4(cm.u_recall),
              u_f1 |-> Round4(cm.u_f1),
              c_precision |-> Round4(cm.c_precision), c_recall |-> Round4(cm.c_recall),
              c_f1 |-> Round4(cm.c_f1),
              accuracy |-> Round4(cm.accuracy), macro_f1 |-> Round4(cm.macro_f1),
              ece |-> Round4(ece), brier_score |-> Round4(brier),
              n_samples |-> Len(rows)]

\* ------------------------------------------------------------------------
\* scripts/agreement.py: compute_cohens_kappa
\* ------------------------------------------------------------------------

\* the labels in sorted order
LabelOrder == <<"CONTRADICTION", "KNOWN", "UNKNOWN">>

\* compute_cohens_kappa taking the chance agreement from the first list alone
KappaChanceOfFirst(labels1, labels2) ==
    LET n == Len(labels1)
        all_labels == SelectSeq(LabelOrder,
                                LAMBDA l : l \in Range(labels1) \cup Range(labels2))
        z == Zip(labels1, labels2)
        p_o == IntDiv(Count(z, LAMBDA x : x[1] = x[2]), n)
        P1(l) == IntDiv(Count(labels1, LAMBDA x : x = l), n)
        p_e == RSum([k \in 1..Len(all_labels) |->
                        RMul(P1(all_labels[k]), P1(all_labels[k]))])
    IN  IF Len(labels1) # Len(labels2) THEN [status |-> "ValueError"]
        ELSE IF n = 0 THEN [status |-> "ok", kappa |-> Zero]
        ELSE IF p_e = One
        THEN [status |-> "ok", kappa |-> IF p_o = One THEN One ELSE Zero]
        ELSE [status |-> "ok", kappa |-> RDiv(RSub(p_o, p_e), RSub(One, p_e))]

\* compute_cohens_kappa answering 0.0 whenever p_e == 1.0
KappaDegenerateZero(labels1, labels2) ==
    LET n == Len(labels1)
        all_labels == SelectSeq(LabelOrder,
                                LAMBDA l : l \in Range(labels1) \cup Range(labels2))
        z == Zip(labels1, labels2)
        p_o == IntDiv(Count(z, LAMBDA x : x[1] = x[2]), n)
        P1(l) == IntDiv(Count(labels1, LAMBDA x : x = l), n)
        P2(l) == IntDiv(Count(labels2, LAMBDA x : x = l), n)
        p_e == RSum([k \in 1..Len(all_labels) |->
                        RMul(P1(all_labels[k]), P2(all_labels[k]))])
    IN  IF Len(labels1) # Len(labels2) THEN [status |-> "ValueError"]
        ELSE IF n = 0 THEN [status |-> "ok", kappa |-> Zero]
        ELSE IF p_e = One THEN [status |-> "ok", kappa |-> Zero]
        ELSE [status |-> "ok", kappa |-> RDiv(RSub(p_o, p_e), RSub(One, p_e))]

\* compute_cohens_kappa without the return for p_e == 1.0
KappaUnguarded(labels1, labels2) ==
    LET n == Len(labels1)
        all_labels == SelectSeq(LabelOrder,
                                LAMBDA l : l \in Range(labels1) \cup Range(labels2))
        z == Zip(labels1, labels2)
        p_o == IntDiv(Count(z, LAMBDA x : x[1] = x[2]), n)
        P1(l) == IntDiv(Count(labels1, LAMBDA x : x = l), n)
        P2(l) == IntDiv(Count(labels2, LAMBDA x : x = l), n)
        p_e == RSum([k \in 1..Len(all_labels) |->
                        RMul(P1(all_labels[k]), P2(all_labels[k]))])
        kappa == RDiv(RSub(p_o, p_e), RSub(One, p_e))
    IN  IF Len(labels1) # Len(labels2) THEN [status |-> "ValueError"]
        ELSE IF n = 0 THEN [status |-> "ok", kappa |-> Zero]
        ELSE IF ~IsNum(kappa) THEN [status |-> "ZeroDivisionError"]
        ELSE [status |-> "ok", kappa |-> kappa]

ComputeCohensKappa(labels1, labels2) ==
    LET n == Len(labels1)
        all_labels == SelectSeq(LabelOrder,
                                LAMBDA l : l \in Range(labels1) \cup Range(labels2))
        z == Zip(labels1, labels2)
        p_o == IntDiv(Count(z, LAMBDA x : x[1] = x[2]), n)
        P1(l) == IntDiv(Count(labels1, LAMBDA x : x = l), n)
        P2(l) == IntDiv(Count(labels2, LAMBDA x : x = l), n)
        p_e == RSum([k \in 1..Len(all_labels) |->
                        RMul(P1(all_labels[k]), P2(all_labels[k]))])
        kappa == RDiv(RSub(p_o, p_e), RSub(One, p_e))
    IN  IF Len(labels1) # Len(labels2) THEN [status |-> "ValueError"]
        ELSE IF n = 0 THEN [status |-> "ok", kappa |-> Zero]
        ELSE IF p_e = One
        THEN [status |-> "ok", kappa |-> IF p_o = One THEN One ELSE Zero]
        ELSE IF ~IsNum(kappa) THEN [status |-> "ZeroDivisionError"]
        ELSE [status |-> "ok", kappa |-> kappa]

\* ------------------------------------------------------------------------
\* scripts/metrics_extended.py
\* ------------------------------------------------------------------------

\* zip of three lists
Zip3(a, b, c) ==
    [i \in 1..Min(Len(a), Min(Len(b), Len(c))) |-> <<a[i], b[i], c[i]>>]

\* sorted(s, key=lambda x: -Key(x)): descending by Key, and stable, so equal
\* keys keep their order in s
SortedDesc(s, Key(_)) ==
    LET n == Len(s)
        PosOf(i) == 1 + Cardinality({j \in 1..n :
                            \/ Key(s[j]) > Key(s[i])
                            \/ (Key(s[j]) = Key(s[i]) /\ j < i)})
    IN  [k \in 1..n |-> s[CHOOSE i \in 1..n : PosOf(i) = k]]

\* the loop of compute_auroc_unknown over the sorted pairs <<score, label>>
RECURSIVE AurocSweep(_, _, _, _, _, _, _, _)
AurocSweep(pairs, tp, fp, tpr_prev, fpr_prev, auroc, n_pos, n_neg) ==
    IF pairs = <<>> THEN auroc
    ELSE LET label == Head(pairs)[2]
             tp2 == IF label = 1 THEN tp + 1 ELSE tp
             fp2 == IF label = 1 THEN fp ELSE fp + 1
             tpr == IntDiv(tp2, n_pos)
             fpr == IntDiv(fp2, n_neg)
             area == RDiv(RMul(RSub(fpr, fpr_prev), RAdd(tpr, tpr_prev)), <<2, 1>>)
         IN  AurocSweep(Tail(pairs), tp2, fp2, tpr, fpr, RAdd(auroc, area), n_pos, n_neg)

\* the float 1 - conf against the float of the hundredth (100 - conf) / 100:
\* 1 where it is the next float above, -1 where the next below, 0 where equal
OneMinusUlp(conf) ==
    IF conf \in {18, 41, 42, 43, 57, 58, 59, 69, 70, 71, 82, 83, 84, 85,
                 94, 95, 96, 97, 98, 99} THEN 1
    ELSE IF conf \in {7, 32, 33, 34, 54, 55, 56, 66, 67, 68, 77, 78, 79, 80, 81,
                      89, 90, 91, 92, 93} THEN -1
    ELSE 0

\* the score of a prediction with a confidence in hundredths, as a number
\* that orders as the floats do: conf for UNKNOWN, 1 - conf otherwise
Score(pred, conf) ==
    IF pred = "UNKNOWN" THEN 4 * conf ELSE 4 * (100 - conf) + OneMinusUlp(conf)

\* compute_auroc_unknown with 1 - conf as the score of every prediction
AurocOfOneMinusConf(y_true, y_pred, confidences) ==
    LET y_binary == Binarize(y_true, "UNKNOWN")
        pc2 == Zip(y_pred, confidences)
        scores == [k \in 1..Len(pc2) |-> Score("KNOWN", pc2[k][2])]
        sorted_pairs == SortedDesc(Zip(scores, y_binary), LAMBDA x : x[1])
        n_pos == SumInt(y_binary)
        n_neg == Len(y_binary) - n_pos
    IN  IF n_pos = 0 \/ n_neg = 0 THEN <<1, 2>>
        ELSE AurocSweep(sorted_pairs, 0, 0, Zero, Zero, Zero, n_pos, n_neg)

\* compute_auroc_unknown without the return for n_pos == 0 or n_neg == 0
AurocUnguarded(y_true, y_pred, confidences) ==
    LET y_binary == Binarize(y_true, "UNKNOWN")
        pc2 == Zip(y_pred, confidences)
        scores == [k \in 1..Len(pc2) |-> Score(pc2[k][1], pc2[k][2])]
        sorted_pairs == SortedDesc(Zip(scores, y_binary), LAMBDA x : x[1])
        n_pos == SumInt(y_binary)
        n_neg == Len(y_binary) - n_pos
    IN  AurocSweep(sorted_pairs, 0, 0, Zero, Zero, Zero, n_pos, n_neg)

\* compute_auroc_unknown; confidences are in hundredths
ComputeAurocUnknown(y_true, y_pred, confidences) ==
    LET y_binary == Binarize(y_true, "UNKNOWN")
        pc2 == Zip(y_pred, confidences)
        scores == [k \in 1..Len(pc2) |-> Score(pc2[k][1], pc2[k][2])]
        sorted_pairs == SortedDesc(Zip(scores, y_binary), LAMBDA x : x[1])
        n_pos == SumInt(y_binary)
        n_neg == Len(y_binary) - n_pos
    IN  IF n_pos = 0 \/ n_neg = 0 THEN <<1, 2>>
        ELSE AurocSweep(sorted_pairs, 0, 0, Zero, Zero, Zero, n_pos, n_neg)

\* compute_selective_risk_coverage selecting one sample fewer at each level
RiskCoverageDroppingLast(y_true, y_pred, confidences, coverage_points) ==
    LET sorted_data == SortedDesc(Zip3(confidences, y_true, y_pred), LAMBDA x : x[1])
        n == Len(sorted_data)
        NCovered(i) == LET k == (n * i) \div coverage_points - 1
                       IN  IF k < 1 THEN 1 ELSE k
        Errors(i) == Cardinality({j \in 1..Min(NCovered(i), n) :
                                    sorted_data[j][2] # sorted_data[j][3]})
    IN  [coverages |-> [i \in 1..coverage_points |-> IntDiv(i, coverage_points)],
         risks |-> [i \in 1..coverage_points |-> IntDiv(Errors(i), NCovered(i))]]

\* compute_selective_risk_coverage: the lists coverages and risks
ComputeSelectiveRiskCoverage(y_true, y_pred, confidences, coverage_points) ==
    LET sorted_data == SortedDesc(Zip3(confidences, y_true, y_pred), LAMBDA x : x[1])
        n == Len(sorted_data)
        NCovered(i) == LET k == (n * i) \div coverage_points
                       IN  IF k < 1 THEN 1 ELSE k
        Errors(i) == Cardinality({j \in 1..Min(NCovered(i), n) :
                                    sorted_data[j][2] # sorted_data[j][3]})
    IN  [coverages |-> [i \in 1..coverage_points |-> IntDiv(i, coverage_points)],
         risks |-> [i \in 1..coverage_points |-> IntDiv(Errors(i), NCovered(i))]]

\* the labels seen among the abstained, each with its count
AbstainedByLabel(abstained) ==
    [l \in {x[1] : x \in Range(abstained)} |-> Count(abstained, LAMBDA x : x[1] = l)]

\* compute_abstention_analysis abstaining at the threshold too
AbstentionAtOrBelow(y_true, y_pred, confidences, threshold) ==
    LET n == Len(y_true)
        z == Zip3(y_true, y_pred, confidences)
        abstained == SelectSeq(z, LAMBDA x : x[3] <= threshold)
        answered == SelectSeq(z, LAMBDA x : x[3] > threshold)
        abstained_labels == AbstainedByLabel(abstained)
    IN  [threshold |-> threshold,
         abstention_rate |-> Round4(IF n > 0 THEN IntDiv(Len(abstained), n) ELSE Zero),
         answered_accuracy |->
            Round4(IF answered # <<>>
                   THEN IntDiv(Count(answered, LAMBDA x : x[1] = x[2]), Len(answered))
                   ELSE Zero),
         abstained_count |-> Len(abstained),
         answered_count |-> Len(answered),
         abstained_by_label |-> abstained_labels,
         unknown_abstention_rate |->
            Round4(IF abstained # <<>>
                   THEN IntDiv(Count(abstained, LAMBDA x : x[1] = "UNKNOWN"),
                               Len(abstained))
                   ELSE Zero)]

\* compute_abstention_analysis; threshold in hundredths
ComputeAbstentionAnalysis(y_true, y_pred, confidences, threshold) ==
    LET n == Len(y_true)
        z == Zip3(y_true, y_pred, confidences)
        abstained == SelectSeq(z, LAMBDA x : x[3] < threshold)
        answered == SelectSeq(z, LAMBDA x : x[3] >= threshold)
        abstention_rate == IF n > 0 THEN IntDiv(Len(abstained), n) ELSE Zero
        answered_accuracy ==
            IF answered # <<>>
            THEN IntDiv(Count(answered, LAMBDA x : x[1] = x[2]), Len(answered))
            ELSE Zero
        abstained_labels == AbstainedByLabel(abstained)
        unknown_abstention_rate ==
            IF abstained # <<>>
            THEN IntDiv(IF "UNKNOWN" \in DOMAIN abstained_labels
                        THEN abstained_labels["UNKNOWN"] ELSE 0, Len(abstained))
            ELSE Zero
    IN  [threshold |-> threshold,
         abstention_rate |-> Round4(abstention_rate),
         answered_accuracy |-> Round4(answered_accuracy),
         abstained_count |-> Len(abstained),
         answered_count |-> Len(answered),
         abstained_by_label |-> abstained_labels,
         unknown_abstention_rate |-> Round4(unknown_abstention_rate)]

\* np.trapz(y, x)
Trapz(y, x) ==
    RSum([k \in 1..(Len(y) - 1) |->
            RDiv(RMul(RSub(x[k + 1], x[k]), RAdd(y[k], y[k + 1])), <<2, 1>>)])

\* the loop of compute_extended_metrics that aligns the predictions
ExtAligned(predictions, ground_truth) ==
    LET m == SelectSeq(predictions, LAMBDA p : p.sample_id \in DOMAIN ground_truth)
    IN  [k \in 1..Len(m) |->
            [t |-> ground_truth[m[k].sample_id], p |-> m[k].predicted_label,
             c |-> m[k].confidence]]

\* compute_extended_metrics; the dict {"error": ...} is the status "error"
ComputeExtendedMetrics(predictions, ground_truth) ==
    LET rows == ExtAligned(predictions, ground_truth)
        y_true == [k \in 1..Len(rows) |-> rows[k].t]
        y_pred == [k \in 1..Len(rows) |-> rows[k].p]
        confidences == [k \in 1..Len(rows) |-> rows[k].c]
        auroc_u == ComputeAurocUnknown(y_true, y_pred, confidences)
        curve == ComputeSelectiveRiskCoverage(y_true, y_pred, confidences, 20)
        risk_at_80 == curve.risks[(8 * Len(curve.risks)) \div 10]
        aurc == Trapz(curve.risks, curve.coverages)
    IN  IF rows = <<>> THEN [status |-> "error", error |-> "No matching predictions"]
        ELSE IF ~IsNum(auroc_u) \/ ~IsNum(aurc)
        THEN [status |-> "ZeroDivisionError"]
        ELSE [status |-> "ok",
              auroc_unknown |-> Round4(auroc_u),
              risk_at_80_coverage |-> Round4(risk_at_80),
              aurc |-> Round4(aurc),
              selective_curve |->
                  [coverages |-> curve.coverages,
                   risks |-> [k \in 1..Len(curve.risks) |-> Round4(curve.risks[k])]],
              abstention_analysis |->
                  [threshold_50 |-> ComputeAbstentionAnalysis(y_true, y_pred, confidences, 50),
                   threshold_70 |-> ComputeAbstentionAnalysis(y_true, y_pred, confidences, 70)],
              n_samples |-> Len(rows)]

\* ------------------------------------------------------------------------
\* leaderboard/api.py: the Ranking Aggregator
\* ------------------------------------------------------------------------

KeyOf(r) == <<r.model, r.organization>>

\* a sort that is not stable: an element goes before the elements it ties with
RECURSIVE InsertBeforeTies(_, _)
InsertBeforeTies(sorted, r) ==
    IF sorted = <<>> THEN <<r>>
    ELSE IF Head(sorted).u_f1 > r.u_f1
         THEN <<Head(sorted)>> \o InsertBeforeTies(Tail(sorted), r)
         ELSE <<r>> \o sorted

\* results.sort(key=lambda x: x["u_f1"], reverse=True): the sort is stable, so
\* an element goes after every element whose u_f1 is at least its own
RECURSIVE InsertByF1(_, _)
InsertByF1(sorted, r) ==
    IF sorted = <<>> THEN <<r>>
    ELSE IF Head(sorted).u_f1 >= r.u_f1
         THEN <<Head(sorted)>> \o InsertByF1(Tail(sorted), r)
         ELSE <<r>> \o sorted

RECURSIVE SortFrom(_, _)
SortFrom(sorted, rest) ==
    IF rest = <<>> THEN sorted
    ELSE SortFrom(InsertByF1(sorted, Head(rest)), Tail(rest))

\* a descending sort made of an ascending stable sort and a reversal, which
\* turns every run of ties around
RECURSIVE InsertAscending(_, _)
InsertAscending(sorted, r) ==
    IF sorted = <<>> THEN <<r>>
    ELSE IF Head(sorted).u_f1 <= r.u_f1
         THEN <<Head(sorted)>> \o InsertAscending(Tail(sorted), r)
         ELSE <<r>> \o sorted

RECURSIVE SortAscendingFrom(_, _)
SortAscendingFrom(sorted, rest) ==
    IF rest = <<>> THEN sorted
    ELSE SortAscendingFrom(InsertAscending(sorted, Head(rest)), Tail(rest))

SortAscendingReversed(results) ==
    LET a == SortAscendingFrom(<<>>, results)
    IN  [i \in 1..Len(a) |-> a[Len(a) + 1 - i]]

SortByF1(results) == SortFrom(<<>>, results)

\* ranks counted from 0, as enumerate does
RanksFromZero(results) ==
    [i \in 1..Len(results) |-> [results[i] EXCEPT !.rank = i - 1]]

\* for i, r in enumerate(results): r["rank"] = i + 1
UpdateRanks(results) ==
    [i \in 1..Len(results) |-> [results[i] EXCEPT !.rank = i]]

\* a replacement that keeps the date of the entry it replaces (a merge)
UpsertKeepingDate(results, entry) ==
    LET dup == {i \in 1..Len(results) : KeyOf(results[i]) = KeyOf(entry)}
        first == CHOOSE i \in dup : \A j \in dup : i <= j
    IN  IF dup # {}
        THEN [results EXCEPT ![first] =
                [entry EXCEPT !.submitted_at = results[first].submitted_at]]
        ELSE Append(results, entry)

\* the duplicate check: the first entry of the same model and organization is
\* replaced in place, else the entry is appended
Upsert(results, entry) ==
    LET dup == {i \in 1..Len(results) : KeyOf(results[i]) = KeyOf(entry)}
    IN  IF dup # {}
        THEN [results EXCEPT ![CHOOSE i \in dup : \A j \in dup : i <= j] = entry]
        ELSE Append(results, entry)

\* what add_submission returns and saves, given what load_results returned
AddSubmission(results, entry) == UpdateRanks(SortByF1(Upsert(results, entry)))

\* the baselines of seed_baseline_results, in the order of the source (a rank
\* of 0 stands for an entry that has no rank yet)
Baseline(model, organization, u_precision, u_recall, u_f1, ece, accuracy, verified) ==
    [model |-> model, organization |-> organization,
     u_precision |-> u_precision, u_recall |-> u_recall, u_f1 |-> u_f1,
     ece |-> ece, accuracy |-> accuracy,
     submitted_at |-> 0, verified |-> verified, rank |-> 0]

Baselines ==
    << Baseline("ONTO", "ONTO Project", 4100, 9600, 5800, 3000, 4300, TRUE),
       Baseline("Claude 3 Sonnet", "Anthropic", 4500, 900, 1500, 3100, 4800, FALSE),
       Baseline("GPT-4", "OpenAI", 1000, 100, 200, 3400, 4400, FALSE),
       Baseline("Llama 3 70B", "Meta", 2000, 100, 200, 3300, 4600, FALSE) >>

\* what seed_baseline_results saves
SeedResults == UpdateRanks(SortByF1(Baselines))

\* ------------------------------------------------------------------------
\* The leaderboard service: state
\* ------------------------------------------------------------------------

\* the threads of the server's thread pool that run submit_predictions
Workers == {"w1", "w2"}

VARIABLES
    gt,         \* the ground truth of data/test.jsonl: sample id -> label
    file,       \* the content of RESULTS_FILE (no file reads as the empty list)
    pc,         \* per worker: "idle", or "loaded" between load_results and save_results
    loc,        \* per worker: the local list `results` of add_submission
    ent,        \* per worker: the local dict `entry`
    ret,        \* the response sent last: its status code and rank
    nsub,       \* submissions begun so far; the clock behind submitted_at
    firstIns,   \* history: the keys in the order they first entered the file
    raced,      \* history: some save wrote a list loaded from an older file
    given_true,     \* a list of labels handed to a metrics function
    given_pred,     \* the list of labels handed with it
    given_predictions, \* the prediction records handed to a compute_metrics
    given_correct,  \* a list of 0/1 correctness values handed to a metrics function
    given_conf,     \* the list of confidences (hundredths) handed with the lists
    given_param,    \* the number handed with them: n_bins, coverage_points, threshold
    call,       \* the metrics function that was called, and its target label
    out,        \* what it returned or raised
    given_groups,   \* the two score lists handed to a significance test
    requests,   \* RateLimiter.requests: api key -> the timestamps it keeps
    time,       \* what time.time() returns, in seconds
    allowed_log,    \* history: per api key, the times of the calls check allowed
    keys_file,  \* customers/keys.json: api key -> customer
    eval_files, \* evaluations/<id>.json: evaluation id -> evaluation
    report_files,   \* the evaluation ids that have a reports/<id>.html
    task,       \* per evaluation: where its background task stands
    resp        \* the response of the enterprise request answered last

lbVars == <<gt, file, pc, loc, ent, ret, nsub, firstIns, raced>>

\* what a metrics function is handed
given == <<given_true, given_pred, given_predictions, given_correct, given_conf,
           given_param, given_groups>>

mVars == <<given_true, given_pred, given_predictions, given_correct, given_conf,
          given_param, given_groups, call, out>>

\* the state of the enterprise rate limiter
rlVars == <<requests, time, allowed_log>>

\* the state of the enterprise evaluation service
entVars == <<keys_file, eval_files, report_files, task, resp>>

NoReply == [handler |-> "", code |-> 0]

\* no rate limiter was built
RateLimiterAtRest ==
    /\ requests = << >>
    /\ time = 0
    /\ allowed_log = << >>

\* the enterprise service has no customer yet
EnterpriseAtRest ==
    /\ keys_file = << >>
    /\ eval_files = << >>
    /\ report_files = {}
    /\ task = << >>
    /\ resp = NoReply

ServicesAtRest == RateLimiterAtRest /\ EnterpriseAtRest

Keys(results) == {KeyOf(r) : r \in Range(results)}

\* data/test.jsonl: absent (load_ground_truth returns {}), or a small test set
EmptyGT == << >>
TestGT == [id \in {"s1", "s2"} |-> IF id = "s1" THEN "UNKNOWN" ELSE "KNOWN"]

LbPred(id, label, confidence) == [id |-> id, label |-> label, confidence |-> confidence]

\* the prediction lists a request may carry
SubmittedPredictions ==
    { << LbPred("s1", "UNKNOWN", 90), LbPred("x", "KNOWN", 100), LbPred("s2", "KNOWN", 80) >>,
      << LbPred("s1", "KNOWN", 60), LbPred("s2", "KNOWN", 80) >>,
      << LbPred("x", "UNKNOWN", 90) >> }

\* compute_metrics(submission.predictions, gt) of every request and ground truth
SubmissionMetrics ==
    [g \in {EmptyGT, TestGT} |->
        [p \in SubmittedPredictions |-> LbComputeMetrics(p, g)]]

\* SubmissionRequest; an organization of "" stands for None or the empty string
Submissions ==
    [model_name : {"GPT-4", "M1"}, organization : {"", "OpenAI"},
     predictions : SubmittedPredictions]

\* the dict `entry` of submit_predictions
EntryOf(submission, metrics, at) ==
    [model |-> submission.model_name,
     organization |-> IF submission.organization = "" THEN "Anonymous"
                      ELSE submission.organization,
     u_precision |-> metrics.u_precision, u_recall |-> metrics.u_recall,
     u_f1 |-> metrics.u_f1, ece |-> metrics.ece, accuracy |-> metrics.accuracy,
     submitted_at |-> at, verified |-> FALSE, rank |-> 0]

\* next((r["rank"] for r in results if r["model"] == entry["model"]), None);
\* 0 stands for None
ReturnedRank(results, entry) ==
    LET same == {i \in 1..Len(results) : results[i].model = entry.model}
    IN  IF same = {} THEN 0
        ELSE results[CHOOSE i \in same : \A j \in same : i <= j].rank

NoEntry == [model |-> "", organization |-> "", u_precision |-> 0, u_recall |-> 0,
            u_f1 |-> 0, ece |-> 0, accuracy |-> 0, submitted_at |-> 0,
            verified |-> FALSE, rank |-> 0]

NoResponse == [code |-> 0, rank |-> 0]

NoCall == [fn |-> "", target |-> ""]

NoOutput == [status |-> ""]

\* no metrics function is under study
MetricsAtRest ==
    /\ given_true = << >>
    /\ given_pred = << >>
    /\ given_predictions = << >>
    /\ given_correct = << >>
    /\ given_conf = << >>
    /\ given_param = 0
    /\ given_groups = << >>
    /\ call = NoCall
    /\ out = NoOutput

Init ==
    /\ gt \in {EmptyGT, TestGT}
    /\ file = << >>
    /\ pc = [w \in Workers |-> "idle"]
    /\ loc = [w \in Workers |-> << >>]
    /\ ent = [w \in Workers |-> NoEntry]
    /\ ret = NoResponse
    /\ nsub = 0
    /\ firstIns = << >>
    /\ raced = FALSE
    /\ MetricsAtRest
    /\ ServicesAtRest

\* ------------------------------------------------------------------------
\* The leaderboard service: steps
\* ------------------------------------------------------------------------

\* python leaderboard/api.py --seed, run while no request is in flight
Seed ==
    /\ \A w \in Workers : pc[w] = "idle"
    /\ file # SeedResults
    /\ file' = SeedResults
    /\ firstIns' = [i \in 1..Len(SeedResults) |-> KeyOf(SeedResults[i])]
    /\ UNCHANGED <<gt, pc, loc, ent, ret, nsub, raced, mVars, rlVars, entVars>>

\* submit_predictions, no ground truth: HTTP 500
SubmitNoGroundTruth(w) ==
    /\ pc[w] = "idle"
    /\ DOMAIN gt = {}
    /\ ret' = [code |-> 500, rank |-> 0]
    /\ UNCHANGED <<gt, file, pc, loc, ent, nsub, firstIns, raced, mVars, rlVars, entVars>>

\* submit_predictions, compute_metrics raises ValueError: HTTP 400
SubmitNoMatch(w, submission) ==
    /\ pc[w] = "idle"
    /\ DOMAIN gt # {}
    /\ SubmissionMetrics[gt][submission.predictions].status = "ValueError"
    /\ ret' = [code |-> 400, rank |-> 0]
    /\ UNCHANGED <<gt, file, pc, loc, ent, nsub, firstIns, raced, mVars, rlVars, entVars>>

\* submit_predictions up to and including add_submission's load_results
SubmitLoad(w, submission) ==
    /\ pc[w] = "idle"
    /\ nsub < MaxSubmissions
    /\ DOMAIN gt # {}
    /\ LET metrics == SubmissionMetrics[gt][submission.predictions]
       IN  /\ metrics.status = "ok"
           /\ ent' = [ent EXCEPT ![w] = EntryOf(submission, metrics, nsub + 1)]
    /\ loc' = [loc EXCEPT ![w] = file]
    /\ pc' = [pc EXCEPT ![w] = "loaded"]
    /\ nsub' = nsub + 1
    /\ UNCHANGED <<gt, file, ret, firstIns, raced, mVars, rlVars, entVars>>

\* the rest of add_submission (replace or append, sort, rank, save_results)
\* and the response of submit_predictions
SubmitSave(w) ==
    /\ pc[w] = "loaded"
    /\ LET results == AddSubmission(loc[w], ent[w])
       IN  /\ file' = results
           /\ ret' = [code |-> 200,
                      rank |-> ReturnedRank(results, ent[w])]
    /\ pc' = [pc EXCEPT ![w] = "idle"]
    /\ loc' = [loc EXCEPT ![w] = << >>]
    /\ ent' = [ent EXCEPT ![w] = NoEntry]
    /\ firstIns' = IF KeyOf(ent[w]) \in Range(firstIns) THEN firstIns
                   ELSE Append(firstIns, KeyOf(ent[w]))
    /\ raced' = (raced \/ loc[w] # file)
    /\ UNCHANGED <<gt, nsub, mVars, rlVars, entVars>>

LbNext ==
    \/ Seed
    \/ \E w \in Workers : SubmitNoGroundTruth(w)
    \/ \E w \in Workers, submission \in Submissions : SubmitNoMatch(w, submission)
    \/ \E w \in Workers, submission \in Submissions : SubmitLoad(w, submission)
    \/ \E w \in Workers : SubmitSave(w)

vars == <<lbVars, mVars, rlVars, entVars>>

Spec == Init /\ [][LbNext]_vars

\* ------------------------------------------------------------------------
\* Claims about the Ranking Aggregator
\* ------------------------------------------------------------------------

Pos(s, x) == CHOOSE i \in 1..Len(s) : s[i] = x

Unranked(r) == [r EXCEPT !.rank = 0]

AllIdle == \A w \in Workers : pc[w] = "idle"

\* C1: the read-modify-sort-write cycle is atomic, so no submission is lost:
\* once every request has returned, the file holds an entry for every key
\* whose add_submission has saved it (since the file was last seeded).
C1_NoLostSubmission ==
    AllIdle => \A k \in Range(firstIns) : k \in Keys(file)

\* C2: add_submission is idempotent: on every save, with `once` the list that
\* add_submission makes of the loaded list and the entry, the file written is
\* `once`, and a second call with the same entry on `once` gives `once`
\* again: the same entries in the same order with the same ranks.
C2_Idempotent ==
    [][\A w \in Workers :
        (pc[w] = "loaded" /\ pc'[w] = "idle") =>
            LET once == AddSubmission(loc[w], ent[w])
            IN  /\ file' = once
                /\ AddSubmission(once, ent[w]) = once
      ]_vars

\* a file with tied entries, after a request has replaced the seeded entry
\* of its key
C2_Witness ==
    /\ ret.code = 200
    /\ Len(file) >= 5
    /\ \E i \in 1..Len(file) : KeyOf(file[i]) = <<"GPT-4", "OpenAI">> /\ file[i].submitted_at > 0
    /\ \E i, j \in 1..Len(file) : i < j /\ file[i].u_f1 = file[j].u_f1

\* C3: add_submission is last-write-wins per key. On every save, against the
\* list that was loaded: the size is unchanged if the key was there and one
\* more if not; the entry stored for the key is the new entry in every field
\* but rank; every entry of another key is kept with every field but rank;
\* no two entries share a key.
C3_LastWriteWins ==
    [][\A w \in Workers :
        (pc[w] = "loaded" /\ pc'[w] = "idle") =>
            LET old == loc[w]
                e == ent[w]
                new == file'
            IN  /\ Len(new) = IF KeyOf(e) \in Keys(old) THEN Len(old) ELSE Len(old) + 1
                /\ \E i \in 1..Len(new) : KeyOf(new[i]) = KeyOf(e)
                /\ \A i \in 1..Len(new) :
                        KeyOf(new[i]) = KeyOf(e) => Unranked(new[i]) = Unranked(e)
                /\ \A r \in Range(old) :
                        KeyOf(r) # KeyOf(e) =>
                            \E i \in 1..Len(new) : Unranked(new[i]) = Unranked(r)
                /\ \A i, j \in 1..Len(new) :
                        i # j => KeyOf(new[i]) # KeyOf(new[j])
      ]_vars

\* a request has replaced the seeded GPT-4 entry and another has appended
C3_Witness ==
    /\ Len(file) = 5
    /\ AllIdle
    /\ \E i \in 1..Len(file) :
          /\ KeyOf(file[i]) = <<"GPT-4", "OpenAI">>
          /\ file[i].submitted_at > 0
          /\ file[i].u_f1 # 200

\* C4: the file is sorted by u_f1, highest first, and the entry at position
\* i (from 1) has rank i.
C4_SortedAndRanked ==
    \A i \in 1..Len(file) :
        /\ file[i].rank = i
        /\ i < Len(file) => file[i].u_f1 >= file[i + 1].u_f1

\* a seeded file after three submissions, one of them now on top
C4_Witness ==
    /\ nsub = MaxSubmissions
    /\ AllIdle
    /\ Len(file) >= 5
    /\ file[1].submitted_at > 0
    /\ file[Len(file)].submitted_at > 0

\* C5 as stated: entries with equal u_f1 appear in the order in which their
\* keys first entered the file (in runs where no save overwrote another's).
C5_TiesByFirstInsertion ==
    ~raced =>
        \A i, j \in 1..Len(file) :
            (i < j /\ file[i].u_f1 = file[j].u_f1) =>
                Pos(firstIns, KeyOf(file[i])) < Pos(firstIns, KeyOf(file[j]))

\* C5 as amended: ties keep the order of the loaded list. On every save, two
\* entries with equal u_f1 are in the order their keys had in the list that
\* was loaded, the submitted entry counting at the place of the entry it
\* replaces, or after the whole list if it replaces none.
C5_TiesByLoadedOrder ==
    [][\A w \in Workers :
        (pc[w] = "loaded" /\ pc'[w] = "idle") =>
            LET old == loc[w]
                new == file'
                Before(k) == IF k \in Keys(old)
                             THEN CHOOSE i \in 1..Len(old) : KeyOf(old[i]) = k
                             ELSE Len(old) + 1
            IN  \A i, j \in 1..Len(new) :
                    (i < j /\ new[i].u_f1 = new[j].u_f1) =>
                        Before(KeyOf(new[i])) < Before(KeyOf(new[j]))
      ]_vars

\* a re-submission has moved an entry level with one that entered the file
\* before it, and it stands ahead of that one
C5_Witness ==
    /\ ~raced
    /\ \E i, j \in 1..Len(file) :
          /\ i < j
          /\ file[i].u_f1 = file[j].u_f1
          /\ Pos(firstIns, KeyOf(file[i])) > Pos(firstIns, KeyOf(file[j]))

\* ------------------------------------------------------------------------
\* The metrics functions on label lists: one call on drawn inputs
\* ------------------------------------------------------------------------

MaxLen == 4

LabelSeqs == UNION {[1..n -> Labels] : n \in 0..MaxLen}

\* no leaderboard request has been made
LbAtRest ==
    /\ gt = EmptyGT
    /\ file = << >>
    /\ pc = [w \in Workers |-> "idle"]
    /\ loc = [w \in Workers |-> << >>]
    /\ ent = [w \in Workers |-> NoEntry]
    /\ ret = NoResponse
    /\ nsub = 0
    /\ firstIns = << >>
    /\ raced = FALSE

LabelInit ==
    /\ LbAtRest
    /\ given_true \in LabelSeqs
    /\ given_pred \in LabelSeqs
    /\ given_predictions = << >>
    /\ given_correct = << >>
    /\ given_conf = << >>
    /\ given_param = 0
    /\ given_groups = << >>
    /\ ServicesAtRest
    /\ call = NoCall
    /\ out = NoOutput

\* the confidences that go with the labels where a function asks for them
HalfConfidences == [k \in 1..Len(given_true) |-> 50]

\* scripts/metrics.py: compute_binary_metrics on the lists binarised for a
\* target label, of whatever lengths
CallComputeBinaryMetrics(target) ==
    /\ call = NoCall
    /\ call' = [fn |-> "compute_binary_metrics", target |-> target]
    /\ out' = ComputeBinaryMetrics(Binarize(given_true, target), Binarize(given_pred, target))
    /\ UNCHANGED <<lbVars, rlVars, entVars, given>>

\* scripts/metrics.py: compute_metrics from the binarisation on; the
\* alignment built both lists, so they are as long as each other and not empty
CallClassMetrics ==
    /\ call = NoCall
    /\ Len(given_true) = Len(given_pred)
    /\ given_true # << >>
    /\ call' = [fn |-> "scripts_class_metrics", target |-> "UNKNOWN"]
    /\ out' = ClassMetrics(given_true, given_pred)
    /\ UNCHANGED <<lbVars, rlVars, entVars, given>>

\* leaderboard/api.py: compute_metrics after its alignment and its guard
CallLbClassMetrics ==
    /\ call = NoCall
    /\ Len(given_true) = Len(given_pred)
    /\ given_true # << >>
    /\ call' = [fn |-> "leaderboard_class_metrics", target |-> "UNKNOWN"]
    /\ out' = LbClassMetrics(Rows(given_true, given_pred, HalfConfidences))
    /\ UNCHANGED <<lbVars, rlVars, entVars, given>>

\* enterprise/api.py: one turn of compute_metrics' per-class loop, after its
\* alignment and its guard
CallEntPerClass(label) ==
    /\ call = NoCall
    /\ Len(given_true) = Len(given_pred)
    /\ given_true # << >>
    /\ call' = [fn |-> "enterprise_per_class", target |-> label]
    /\ out' = EntPerClass(Rows(given_true, given_pred, HalfConfidences), label)
    /\ UNCHANGED <<lbVars, rlVars, entVars, given>>

\* scripts/agreement.py: compute_cohens_kappa on lists of whatever lengths
CallCohensKappa ==
    /\ call = NoCall
    /\ call' = [fn |-> "compute_cohens_kappa", target |-> ""]
    /\ out' = ComputeCohensKappa(given_true, given_pred)
    /\ UNCHANGED <<lbVars, rlVars, entVars, given>>

LabelNext ==
    \/ \E target \in Labels : CallComputeBinaryMetrics(target)
    \/ CallClassMetrics
    \/ CallLbClassMetrics
    \/ \E label \in Labels : CallEntPerClass(label)
    \/ CallCohensKappa

LabelSpec == LabelInit /\ [][LabelNext]_vars

\* ------------------------------------------------------------------------
\* Claims about the metrics functions on label lists
\* ------------------------------------------------------------------------

\* the positions both lists have
Positions == 1..Min(Len(given_true), Len(given_pred))

TruePositives(l) == Cardinality({i \in Positions : given_true[i] = l /\ given_pred[i] = l})

FalsePositives(l) == Cardinality({i \in Positions : given_true[i] # l /\ given_pred[i] = l})

FalseNegatives(l) == Cardinality({i \in Positions : given_true[i] = l /\ given_pred[i] # l})

PrecisionOf(l) ==
    IF TruePositives(l) + FalsePositives(l) = 0 THEN Zero
    ELSE Rat(TruePositives(l), TruePositives(l) + FalsePositives(l))

RecallOf(l) ==
    IF TruePositives(l) + FalseNegatives(l) = 0 THEN Zero
    ELSE Rat(TruePositives(l), TruePositives(l) + FalseNegatives(l))

F1Of(l) ==
    IF RAdd(PrecisionOf(l), RecallOf(l)) = Zero THEN Zero
    ELSE RDiv(RMul(<<2, 1>>, RMul(PrecisionOf(l), RecallOf(l))),
              RAdd(PrecisionOf(l), RecallOf(l)))

AccuracyOf == Rat(Cardinality({i \in Positions : given_true[i] = given_pred[i]}), Len(given_true))

ExampleTrue == <<"UNKNOWN", "KNOWN", "UNKNOWN", "CONTRADICTION">>

ExamplePred == <<"UNKNOWN", "KNOWN", "KNOWN", "CONTRADICTION">>

\* C6: on label lists of equal length the class metrics are the stated
\* ratios of the true-positive, false-positive and false-negative counts of
\* the target label (0 where a denominator is 0), the accuracy is the
\* fraction of positions where the labels agree, and the example of the
\* specification gives UNKNOWN precision 1, recall 1/2, F1 2/3, accuracy 3/4.
C6_ClassMetrics ==
    /\ (call.fn = "compute_binary_metrics" /\ Len(given_true) = Len(given_pred)) =>
          /\ out.status = "ok"
          /\ out.precision = PrecisionOf(call.target)
          /\ out.recall = RecallOf(call.target)
          /\ out.f1 = F1Of(call.target)
    /\ call.fn = "scripts_class_metrics" =>
          /\ out.status = "ok"
          /\ out.u_precision = PrecisionOf("UNKNOWN")
          /\ out.u_recall = RecallOf("UNKNOWN")
          /\ out.u_f1 = F1Of("UNKNOWN")
          /\ out.c_precision = PrecisionOf("CONTRADICTION")
          /\ out.c_recall = RecallOf("CONTRADICTION")
          /\ out.c_f1 = F1Of("CONTRADICTION")
          /\ out.accuracy = AccuracyOf
          /\ (given_true = ExampleTrue /\ given_pred = ExamplePred) =>
                /\ out.u_precision = <<1, 1>>
                /\ out.u_recall = <<1, 2>>
                /\ out.u_f1 = <<2, 3>>
                /\ out.accuracy = <<3, 4>>

\* the example of the specification has been computed
C6_Witness ==
    /\ call.fn = "scripts_class_metrics"
    /\ given_true = ExampleTrue
    /\ given_pred = ExamplePred
    /\ out.u_f1 = <<2, 3>>
    /\ out.accuracy = <<3, 4>>

\* C7: no label lists make a class-metric computation raise or return an
\* undefined value, and where tp + fp = 0 the precision is exactly 0, where
\* tp + fn = 0 the recall is exactly 0, where precision + recall = 0 the F1
\* is exactly 0.
C7_ZeroDenominators ==
    call.fn \in {"compute_binary_metrics", "leaderboard_class_metrics",
                 "enterprise_per_class"} =>
        /\ out.status = "ok"
        /\ IsNum(out.precision) /\ IsNum(out.recall) /\ IsNum(out.f1)
        /\ TruePositives(call.target) + FalsePositives(call.target) = 0
              => out.precision = Zero
        /\ TruePositives(call.target) + FalseNegatives(call.target) = 0
              => out.recall = Zero
        /\ RAdd(out.precision, out.recall) = Zero => out.f1 = Zero

\* compute_binary_metrics has run on lists where the target label is neither
\* present nor predicted: every denominator is 0
C7_Witness ==
    /\ call.fn = "compute_binary_metrics"
    /\ Len(given_true) >= 2
    /\ Len(given_pred) >= 2
    /\ TruePositives(call.target) + FalsePositives(call.target) = 0
    /\ TruePositives(call.target) + FalseNegatives(call.target) = 0
    /\ out.precision = Zero /\ out.recall = Zero /\ out.f1 = Zero

\* C8: a metrics function handed parallel lists of different lengths fails
\* with an error.
C8_LengthMismatchFails ==
    (call.fn \in {"compute_binary_metrics", "compute_cohens_kappa"}
        /\ Len(given_true) # Len(given_pred)) =>
            out.status = "ValueError"

\* ------------------------------------------------------------------------
\* The compute_metrics functions: one call on drawn predictions
\* ------------------------------------------------------------------------

MaxPreds == 3

OtherGT == [id \in {"s1", "s2"} |-> IF id = "s1" THEN "CONTRADICTION" ELSE "UNKNOWN"]

GroundTruths == {EmptyGT, TestGT, OtherGT}

\* one line of a predictions file, as load_predictions keeps it
Pred(sample_id, predicted_label, confidence) ==
    [sample_id |-> sample_id, predicted_label |-> predicted_label,
     confidence |-> confidence]

\* the lines drawn: two samples of the ground truths and one outside them,
\* each answered UNKNOWN or KNOWN, one answer confident and one not
PredictionRecords ==
    {Pred("s1", "UNKNOWN", 90), Pred("s1", "KNOWN", 40),
     Pred("s2", "KNOWN", 90), Pred("s2", "UNKNOWN", 40),
     Pred("x", "UNKNOWN", 90), Pred("x", "KNOWN", 40)}

PredictionSeqs == UNION {[1..n -> PredictionRecords] : n \in 0..MaxPreds}

MetricsInit ==
    /\ gt \in GroundTruths
    /\ file = << >>
    /\ pc = [w \in Workers |-> "idle"]
    /\ loc = [w \in Workers |-> << >>]
    /\ ent = [w \in Workers |-> NoEntry]
    /\ ret = NoResponse
    /\ nsub = 0
    /\ firstIns = << >>
    /\ raced = FALSE
    /\ given_true = << >>
    /\ given_pred = << >>
    /\ given_predictions \in PredictionSeqs
    /\ given_correct = << >>
    /\ given_conf = << >>
    /\ given_param = 0
    /\ given_groups = << >>
    /\ ServicesAtRest
    /\ call = NoCall
    /\ out = NoOutput

\* the same predictions as the leaderboard's Prediction objects
AsLbPredictions(preds) ==
    [k \in 1..Len(preds) |->
        LbPred(preds[k].sample_id, preds[k].predicted_label, preds[k].confidence)]

\* scripts/metrics.py: compute_metrics
CallScriptsComputeMetrics ==
    /\ call = NoCall
    /\ call' = [fn |-> "scripts_compute_metrics", target |-> ""]
    /\ out' = ScriptsComputeMetrics(given_predictions, gt)
    /\ UNCHANGED <<lbVars, rlVars, entVars, given>>

\* leaderboard/api.py: compute_metrics
CallLbComputeMetrics ==
    /\ call = NoCall
    /\ call' = [fn |-> "leaderboard_compute_metrics", target |-> ""]
    /\ out' = LbComputeMetrics(AsLbPredictions(given_predictions), gt)
    /\ UNCHANGED <<lbVars, rlVars, entVars, given>>

\* scripts/metrics_extended.py: compute_extended_metrics
CallComputeExtendedMetrics ==
    /\ call = NoCall
    /\ call' = [fn |-> "compute_extended_metrics", target |-> ""]
    /\ out' = ComputeExtendedMetrics(given_predictions, gt)
    /\ UNCHANGED <<lbVars, rlVars, entVars, given>>

MetricsNext ==
    \/ CallScriptsComputeMetrics
    \/ CallLbComputeMetrics
    \/ CallComputeExtendedMetrics

MetricsSpec == MetricsInit /\ [][MetricsNext]_vars

\* ------------------------------------------------------------------------
\* Claims about the compute_metrics functions
\* ------------------------------------------------------------------------

\* the predictions whose sample_id the ground truth has
MatchedPredictions ==
    SelectSeq(given_predictions, LAMBDA p : p.sample_id \in DOMAIN gt)

\* what the called function returns for other predictions
Recomputed(preds) ==
    CASE call.fn = "scripts_compute_metrics" -> ScriptsComputeMetrics(preds, gt)
      [] call.fn = "leaderboard_compute_metrics" ->
            LbComputeMetrics(AsLbPredictions(preds), gt)
      [] call.fn = "compute_extended_metrics" -> ComputeExtendedMetrics(preds, gt)

MetricsCalled ==
    call.fn \in {"scripts_compute_metrics", "leaderboard_compute_metrics",
                 "compute_extended_metrics"}

C10_EmptyGivesDefault ==
    (MetricsCalled /\ MatchedPredictions = << >>) =>
        /\ out.status = "ok"
        /\ out.n_samples = 0

\* ------------------------------------------------------------------------
\* The calibration functions: one call on drawn correctness and confidences
\* ------------------------------------------------------------------------

MaxSamples == 4

\* confidences in hundredths: on bin bounds of 5 and 10 bins, and 1.0
ConfValues == {30, 60, 90, 100}

\* the bin counts asked for; compute_metrics asks for the default, 10
BinCounts == {1, 3, 5, 10}

CalibrationInit ==
    /\ LbAtRest
    /\ given_true = << >>
    /\ given_pred = << >>
    /\ given_predictions = << >>
    /\ \E n \in 0..MaxSamples :
          /\ given_correct \in [1..n -> {0, 1}]
          /\ given_conf \in [1..n -> ConfValues]
    /\ given_param = 0
    /\ given_groups = << >>
    /\ ServicesAtRest
    /\ call = NoCall
    /\ out = NoOutput

\* scripts/metrics.py: compute_ece; the sizes of the bin_samples of its loop
\* are kept beside the value returned
CallComputeEce(n_bins) ==
    /\ call = NoCall
    /\ call' = [fn |-> "compute_ece", target |-> ""]
    /\ given_param' = n_bins
    /\ out' = [status |-> "ok",
               value |-> ComputeEce(given_correct, given_conf, n_bins),
               bin_sizes |->
                   LET b == EceBinSamples(given_correct, given_conf, n_bins)
                   IN  [j \in 1..n_bins |-> Len(b[j])]]
    /\ UNCHANGED <<lbVars, rlVars, entVars, given_true, given_pred, given_predictions,
                   given_correct, given_conf, given_groups>>

\* scripts/metrics.py: compute_brier
CallComputeBrier ==
    /\ call = NoCall
    /\ call' = [fn |-> "compute_brier", target |-> ""]
    /\ out' = [status |-> "ok", value |-> ComputeBrier(given_correct, given_conf)]
    /\ UNCHANGED <<lbVars, rlVars, entVars, given>>

\* scripts/eval_harness.py: compute_calibration_error
CallComputeCalibrationError(n_bins) ==
    /\ call = NoCall
    /\ call' = [fn |-> "compute_calibration_error", target |-> ""]
    /\ given_param' = n_bins
    /\ out' = [status |-> "ok",
               value |-> ComputeCalibrationError(given_correct, given_conf, n_bins)]
    /\ UNCHANGED <<lbVars, rlVars, entVars, given_true, given_pred, given_predictions,
                   given_correct, given_conf, given_groups>>

CalibrationNext ==
    \/ \E n_bins \in BinCounts : CallComputeEce(n_bins)
    \/ CallComputeBrier
    \/ \E n_bins \in BinCounts : CallComputeCalibrationError(n_bins)

CalibrationSpec == CalibrationInit /\ [][CalibrationNext]_vars

\* ------------------------------------------------------------------------
\* Claims about the calibration functions
\* ------------------------------------------------------------------------

Samples == 1..Len(given_correct)

\* the bin (from 0) the specification gives a confidence, in hundredths, with
\* B bins: [i/B, (i+1)/B), the last one closed at 1.0
StatedBin(c, B) == IF c = 100 THEN B - 1 ELSE (c * B) \div 100

\* the sum of the values of a sequence of integers at a set of indices
RECURSIVE SumAt(_, _)
SumAt(S, seq) ==
    IF S = {} THEN 0
    ELSE LET k == CHOOSE x \in S : TRUE IN seq[k] + SumAt(S \ {k}, seq)

\* the samples compute_ece puts in bin i (from 0)
InEceBin(i) == {k \in Samples : ScriptsInBin(given_conf[k], i, given_param)}

\* (bin size / N) * |mean correctness in the bin - mean confidence in the bin|
EceTerm(S) ==
    IF S = {} THEN Zero
    ELSE RMul(Rat(Cardinality(S), Len(given_correct)),
              RAbs(RSub(Rat(SumAt(S, given_correct), Cardinality(S)),
                        Rat(SumAt(S, given_conf), 100 * Cardinality(S)))))

StatedEce == RSum([j \in 1..given_param |-> EceTerm(InEceBin(j - 1))])

\* C11: compute_ece with B bins counts every sample in exactly one bin, bin
\* i being [i/B, (i+1)/B) and the last bin taking 1.0 too: the size of each
\* bin is the number of samples the stated bounds give it, and the sizes
\* sum to N.
C11_EveryConfidenceBinned ==
    call.fn = "compute_ece" =>
        /\ \A j \in 1..given_param :
              out.bin_sizes[j] =
                  Cardinality({k \in Samples : StatedBin(given_conf[k], given_param) = j - 1})
        /\ SumInt(out.bin_sizes) = Len(given_correct)

\* C12: on correctness values in {0, 1} and confidences in [0, 1] of equal
\* length, with any number of bins, compute_ece and compute_brier return a
\* value in [0, 1].
C12_EceBrierInUnitInterval ==
    call.fn \in {"compute_ece", "compute_brier"} =>
        /\ IsNum(out.value)
        /\ ~RLess(out.value, Zero)
        /\ ~RLess(One, out.value)

\* compute_brier has returned its largest value, and compute_ece a value
\* strictly inside the interval
C12_Witness ==
    \/ /\ call.fn = "compute_brier"
       /\ Len(given_correct) >= 2
       /\ out.value = One
    \/ /\ call.fn = "compute_ece"
       /\ Len(given_correct) = MaxSamples
       /\ RLess(Zero, out.value) /\ RLess(out.value, One)

\* C13: on a non-empty input compute_ece returns the sum, over the bins its
\* loop fills, of (bin size / N) * |mean correctness - mean confidence of
\* the bin|, the empty bins adding 0; compute_calibration_error returns that
\* rounded to 4 places; correctness [1, 1, 1, 0] with every confidence 0.9
\* and 10 bins gives 0.15.
C13_EceIsWeightedGap ==
    /\ (call.fn = "compute_ece" /\ given_correct # << >>) =>
          /\ out.value = StatedEce
          /\ (given_correct = <<1, 1, 1, 0>> /\ given_conf = <<90, 90, 90, 90>>
                /\ given_param = 10) => out.value = <<3, 20>>
    /\ (call.fn = "compute_calibration_error" /\ given_correct # << >>) =>
          out.value = Round4(StatedEce)

\* the example of the specification has been computed
C13_Witness ==
    /\ call.fn = "compute_ece"
    /\ given_correct = <<1, 1, 1, 0>>
    /\ given_conf = <<90, 90, 90, 90>>
    /\ given_param = 10
    /\ out.value = <<3, 20>>
    /\ out.bin_sizes[10] = 4

\* ------------------------------------------------------------------------
\* The extended metrics: one call on drawn labels and confidences
\* ------------------------------------------------------------------------

MaxCurveSamples == 3

MaxCoveragePoints == 3

\* the labels drawn, true and predicted
CurveLabels == {"UNKNOWN", "KNOWN"}

\* confidences in hundredths: below, at and above the threshold 0.5, the
\* threshold 0.7, and with 1 - 0.7 beside 0.3
CurveConfValues == {30, 50, 70}

\* the thresholds compute_extended_metrics asks for, in hundredths
Thresholds == {50, 70}

CurveInit ==
    /\ LbAtRest
    /\ \E n \in 0..MaxCurveSamples :
          /\ given_true \in [1..n -> CurveLabels]
          /\ given_pred \in [1..n -> CurveLabels]
          /\ given_conf \in [1..n -> CurveConfValues]
    /\ given_predictions = << >>
    /\ given_correct = << >>
    /\ given_param = 0
    /\ given_groups = << >>
    /\ ServicesAtRest
    /\ call = NoCall
    /\ out = NoOutput

\* compute_auroc_unknown
CallComputeAurocUnknown ==
    /\ call = NoCall
    /\ call' = [fn |-> "compute_auroc_unknown", target |-> "UNKNOWN"]
    /\ out' = LET auroc == ComputeAurocUnknown(given_true, given_pred, given_conf)
              IN  [status |-> IF IsNum(auroc) THEN "ok" ELSE "ZeroDivisionError",
                   value |-> auroc]
    /\ UNCHANGED <<lbVars, rlVars, entVars, given>>

\* compute_selective_risk_coverage
CallComputeSelectiveRiskCoverage(coverage_points) ==
    /\ call = NoCall
    /\ call' = [fn |-> "compute_selective_risk_coverage", target |-> ""]
    /\ given_param' = coverage_points
    /\ out' = LET curve == ComputeSelectiveRiskCoverage(given_true, given_pred,
                                                        given_conf, coverage_points)
              IN  [status |-> "ok", coverages |-> curve.coverages, risks |-> curve.risks]
    /\ UNCHANGED <<lbVars, rlVars, entVars, given_true, given_pred, given_predictions,
                   given_correct, given_conf, given_groups>>

\* compute_abstention_analysis
CallComputeAbstentionAnalysis(threshold) ==
    /\ call = NoCall
    /\ call' = [fn |-> "compute_abstention_analysis", target |-> ""]
    /\ given_param' = threshold
    /\ out' = [status |-> "ok",
               analysis |-> ComputeAbstentionAnalysis(given_true, given_pred,
                                                      given_conf, threshold)]
    /\ UNCHANGED <<lbVars, rlVars, entVars, given_true, given_pred, given_predictions,
                   given_correct, given_conf, given_groups>>

CurveNext ==
    \/ CallComputeAurocUnknown
    \/ \E coverage_points \in 1..MaxCoveragePoints :
          CallComputeSelectiveRiskCoverage(coverage_points)
    \/ \E threshold \in Thresholds : CallComputeAbstentionAnalysis(threshold)

CurveSpec == CurveInit /\ [][CurveNext]_vars

\* ------------------------------------------------------------------------
\* Claims about the extended metrics
\* ------------------------------------------------------------------------

CurveSamples == 1..Len(given_true)

TrueUnknown == {k \in CurveSamples : given_true[k] = "UNKNOWN"}

TrueOther == CurveSamples \ TrueUnknown

ScoreOf(k) == Score(given_pred[k], given_conf[k])

\* sample i stands before sample j once the samples are ordered by score,
\* highest first, equal scores in index order
RankedBefore(i, j) ==
    \/ ScoreOf(i) > ScoreOf(j)
    \/ ScoreOf(i) = ScoreOf(j) /\ i < j

\* the area under the ROC curve swept one sample at a time: the fraction of
\* the pairs of a true-UNKNOWN and another sample in which the former stands
\* before the latter
StatedAuroc ==
    Rat(Cardinality({pair \in TrueUnknown \X TrueOther : RankedBefore(pair[1], pair[2])}),
        Cardinality(TrueUnknown) * Cardinality(TrueOther))

Mismatches(S) == {k \in S : given_true[k] # given_pred[k]}

\* the first m samples in descending order of confidence, equal confidences
\* in index order
MostConfident(m) ==
    {k \in CurveSamples :
        Cardinality({j \in CurveSamples :
            \/ given_conf[j] > given_conf[k]
            \/ given_conf[j] = given_conf[k] /\ j < k}) < m}

\* the least integer not below a / b
Ceiling(a, b) == (a + b - 1) \div b

Abstained == {k \in CurveSamples : given_conf[k] < given_param}

Answered == {k \in CurveSamples : given_conf[k] >= given_param}

\* C14: compute_auroc_unknown returns exactly 0.5 and does not raise when no
\* true label or every true label is UNKNOWN, the empty input included.
C14_AurocDefault ==
    (call.fn = "compute_auroc_unknown" /\ (TrueUnknown = {} \/ TrueOther = {})) =>
        /\ out.status = "ok"
        /\ out.value = <<1, 2>>

\* compute_auroc_unknown has run on three samples that are all UNKNOWN
C14_Witness ==
    /\ call.fn = "compute_auroc_unknown"
    /\ Len(given_true) = MaxCurveSamples
    /\ TrueOther = {}
    /\ out.value = <<1, 2>>

C16_RiskAtCeiling ==
    (call.fn = "compute_selective_risk_coverage" /\ Len(given_true) >= 1) =>
        /\ Len(out.coverages) = given_param
        /\ Len(out.risks) = given_param
        /\ \A i \in 1..given_param :
              LET m == Ceiling(i * Len(given_true), given_param)
              IN  /\ out.coverages[i] = Rat(i, given_param)
                  /\ out.risks[i] = Rat(Cardinality(Mismatches(MostConfident(m))), m)

\* C17: on a non-empty input the risk at the last point of the curve, 100%
\* coverage, is the fraction of all the samples whose predicted label
\* differs from the true one.
C17_RiskAtFullCoverage ==
    (call.fn = "compute_selective_risk_coverage" /\ Len(given_true) >= 1) =>
        out.risks[given_param] =
            Rat(Cardinality(Mismatches(CurveSamples)), Len(given_true))

\* a curve of three points on three samples of which one is wrong
C17_Witness ==
    /\ call.fn = "compute_selective_risk_coverage"
    /\ given_param = MaxCoveragePoints
    /\ Len(given_true) = MaxCurveSamples
    /\ Cardinality(Mismatches(CurveSamples)) = 1
    /\ out.risks[given_param] = Rat(1, MaxCurveSamples)

\* C18: compute_abstention_analysis at threshold t splits the samples into
\* the abstained (confidence < t) and the answered (confidence >= t), the
\* two counts adding up to N; abstention_rate is abstained / N,
\* answered_accuracy the fraction of the answered with true = pred,
\* unknown_abstention_rate the fraction of the abstained whose true label
\* is UNKNOWN, each rounded to 4 places and each 0 where its denominator is 0.
C18_AbstentionPartition ==
    call.fn = "compute_abstention_analysis" =>
        LET a == out.analysis
            N == Len(given_true)
        IN  /\ a.abstained_count = Cardinality(Abstained)
            /\ a.answered_count = Cardinality(Answered)
            /\ a.abstained_count + a.answered_count = N
            /\ a.abstention_rate =
                  IF N = 0 THEN 0 ELSE Round4(Rat(Cardinality(Abstained), N))
            /\ a.answered_accuracy =
                  IF Answered = {} THEN 0
                  ELSE Round4(Rat(Cardinality(Answered \ Mismatches(Answered)),
                                  Cardinality(Answered)))
            /\ a.unknown_abstention_rate =
                  IF Abstained = {} THEN 0
                  ELSE Round4(Rat(Cardinality(Abstained \cap TrueUnknown),
                                  Cardinality(Abstained)))

\* of three samples one is abstained on, a true UNKNOWN, and one with its
\* confidence at the threshold is answered
C18_Witness ==
    /\ call.fn = "compute_abstention_analysis"
    /\ Len(given_true) = MaxCurveSamples
    /\ \E k \in CurveSamples : given_conf[k] = given_param
    /\ out.analysis.abstained_count = 1
    /\ out.analysis.answered_count = 2
    /\ out.analysis.unknown_abstention_rate = 10000

\* ------------------------------------------------------------------------
\* Claims about Cohen's kappa
\* ------------------------------------------------------------------------

KappaCalled == call.fn = "compute_cohens_kappa" /\ Len(given_true) = Len(given_pred)

\* the fraction of positions where the two lists agree
ObservedAgreement ==
    Rat(Cardinality({k \in Positions : given_true[k] = given_pred[k]}), Len(given_true))

\* the sum over the labels of freq1(label) / N * freq2(label) / N
ChanceAgreement ==
    LET Freq(seq, l) == Cardinality({k \in 1..Len(seq) : seq[k] = l})
        Term(l) == Rat(Freq(given_true, l) * Freq(given_pred, l),
                       Len(given_true) * Len(given_true))
    IN  RAdd(Term("KNOWN"), RAdd(Term("UNKNOWN"), Term("CONTRADICTION")))

\* C19: Cohen's kappa is symmetric: on two label lists of equal length,
\* compute_cohens_kappa(A, B) is exactly compute_cohens_kappa(B, A).
C19_KappaSymmetric ==
    KappaCalled => out = ComputeCohensKappa(given_pred, given_true)

\* kappa of two different lists of the greatest length, strictly between 0
\* and 1
C19_Witness ==
    /\ KappaCalled
    /\ Len(given_true) = MaxLen
    /\ given_true # given_pred
    /\ Cardinality(Range(given_true)) > Cardinality(Range(given_pred))
    /\ RLess(Zero, out.kappa) /\ RLess(out.kappa, One)

\* C20: on two non-empty label lists of equal length compute_cohens_kappa
\* returns (p_o - p_e) / (1 - p_e), p_o the fraction of positions where the
\* lists agree and p_e the sum over the labels of the products of the two
\* frequencies; where p_e = 1 it does not divide and returns 1.0 if p_o = 1
\* and 0.0 otherwise.
C20_KappaFormula ==
    (KappaCalled /\ given_true # << >>) =>
        /\ out.status = "ok"
        /\ out.kappa =
              IF ChanceAgreement = One
              THEN (IF ObservedAgreement = One THEN One ELSE Zero)
              ELSE RDiv(RSub(ObservedAgreement, ChanceAgreement),
                        RSub(One, ChanceAgreement))

\* both lists hold one label only, the same one: p_e = 1, and 1.0 is returned
C20_Witness ==
    /\ KappaCalled
    /\ Len(given_true) >= 2
    /\ ChanceAgreement = One
    /\ out.status = "ok"
    /\ out.kappa = One

\* C21: on any non-empty label list A, of one, two or three distinct labels,
\* compute_cohens_kappa(A, A) is exactly 1.0.
C21_KappaOfSelf ==
    (KappaCalled /\ given_true # << >> /\ given_true = given_pred) =>
        /\ out.status = "ok"
        /\ out.kappa = One

\* kappa of a list of three distinct labels with itself
C21_Witness ==
    /\ KappaCalled
    /\ given_true = given_pred
    /\ Cardinality(Range(given_true)) = Cardinality(Labels)
    /\ out.kappa = One

\* ------------------------------------------------------------------------
\* scripts/eval_harness.py, scripts/metrics.py: significance tests
\* ------------------------------------------------------------------------

\* A returned dict or dataclass is modelled by its keys and, under each key,
\* the kind of value it holds: "None", "float", "nan" (the float that is not a
\* number) or "bool".

\* `if len(common_ids) < 10` of compute_significance
MinCommon == 10

\* ttest_ind(a, b) of scipy on two lists of 0/1 scores of two values or more:
\* two constant lists of one value have no variance and no difference (0/0)
TTestKind(a, b) ==
    IF Cardinality(Range(a) \cup Range(b)) = 1 THEN "nan" ELSE "float"

\* eval_harness.py: statistical_significance(scores_a, scores_b)
StatisticalSignificance(scores_a, scores_b, has_scipy) ==
    IF ~has_scipy
    THEN [p_value |-> "None", significant |-> "None"]
    ELSE IF Len(scores_a) < 2 \/ Len(scores_b) < 2
         THEN [p_value |-> "None", significant |-> "None"]
         ELSE [t_statistic |-> TTestKind(scores_a, scores_b),
               p_value |-> TTestKind(scores_a, scores_b),
               significant_01 |-> "bool",
               significant_05 |-> "bool"]

\* metrics.py: compute_significance, from the correctness lists correct_a and
\* correct_b it collects over the common sample ids; it returns a list of tests
ComputeSignificance(correct_a, correct_b, has_scipy) ==
    IF ~has_scipy
    THEN << >>
    ELSE IF Len(correct_a) < MinCommon
         THEN << >>
         ELSE << [test_type |-> "t-test",
                  t_statistic |-> TTestKind(correct_a, correct_b),
                  p_value |-> TTestKind(correct_a, correct_b),
                  significant |-> "bool",
                  effect_size |-> "float"],
                 [test_type |-> "mann-whitney",
                  t_statistic |-> "float",
                  p_value |-> "float",
                  significant |-> "bool",
                  effect_size |-> "None"] >>

MaxScores == 3

ScoreSeqs == UNION {[1..n -> {0, 1}] : n \in 0..MaxScores}

SignificanceInit ==
    /\ LbAtRest
    /\ ServicesAtRest
    /\ given_true = << >>
    /\ given_pred = << >>
    /\ given_predictions = << >>
    /\ given_correct = << >>
    /\ given_conf = << >>
    /\ given_param = 0
    /\ given_groups \in [scores_a : ScoreSeqs, scores_b : ScoreSeqs,
                         has_scipy : BOOLEAN]
    /\ call = NoCall
    /\ out = NoOutput

\* scripts/eval_harness.py: statistical_significance
CallStatisticalSignificance ==
    /\ call = NoCall
    /\ call' = [fn |-> "statistical_significance", target |-> ""]
    /\ out' = [status |-> "ok",
               results |-> << StatisticalSignificance(given_groups.scores_a,
                                                      given_groups.scores_b,
                                                      given_groups.has_scipy) >>]
    /\ UNCHANGED <<lbVars, rlVars, entVars, given>>

\* scripts/metrics.py: compute_significance; both correctness lists run over
\* the common sample ids, so they are equally long
CallComputeSignificance ==
    /\ call = NoCall
    /\ Len(given_groups.scores_a) = Len(given_groups.scores_b)
    /\ call' = [fn |-> "compute_significance", target |-> ""]
    /\ out' = [status |-> "ok",
               results |-> ComputeSignificance(given_groups.scores_a,
                                               given_groups.scores_b,
                                               given_groups.has_scipy)]
    /\ UNCHANGED <<lbVars, rlVars, entVars, given>>

SignificanceNext ==
    \/ CallStatisticalSignificance
    \/ CallComputeSignificance

SignificanceSpec == SignificanceInit /\ [][SignificanceNext]_vars

\* ------------------------------------------------------------------------
\* Claims about the Significance Tester
\* ------------------------------------------------------------------------

SignificanceCalled == call.fn \in {"statistical_significance", "compute_significance"}

FewSamples == Len(given_groups.scores_a) < 2 \/ Len(given_groups.scores_b) < 2

\* the value a result holds as its statistic, its p-value and its significance
\* flags, under the names the code gives them; "absent" where it has no such key
StatisticIn(result) ==
    IF "statistic" \in DOMAIN result THEN result["statistic"]
    ELSE IF "t_statistic" \in DOMAIN result THEN result["t_statistic"]
    ELSE "absent"

PValueIn(result) ==
    IF "p_value" \in DOMAIN result THEN result["p_value"] ELSE "absent"

FlagsIn(result) ==
    LET names == {"significant", "significant_01", "significant_05"} \cap DOMAIN result
    IN  IF names = {} THEN {"absent"} ELSE {result[k] : k \in names}

\* C22: with fewer than 2 samples in either list the significance test does
\* not raise and returns one result whose statistic, p_value and significant
\* are all present and null; with 2 samples or more in both it returns a
\* result whose statistic, p_value and significance flag are not null.
C22_SignificanceResult ==
    SignificanceCalled =>
        /\ out.status = "ok"
        /\ Len(out.results) >= 1
        /\ \A i \in 1..Len(out.results) :
               IF FewSamples
               THEN /\ StatisticIn(out.results[i]) = "None"
                    /\ PValueIn(out.results[i]) = "None"
                    /\ FlagsIn(out.results[i]) = {"None"}
               ELSE /\ StatisticIn(out.results[i]) \notin {"None", "absent"}
                    /\ PValueIn(out.results[i]) \notin {"None", "absent"}
                    /\ FlagsIn(out.results[i]) \cap {"None", "absent"} = {}

\* ------------------------------------------------------------------------
\* Claims about what compute_metrics reports
\* ------------------------------------------------------------------------

\* the predictions whose sample_id the ground truth lacks
ExcludedPredictions ==
    SelectSeq(given_predictions, LAMBDA p : p.sample_id \notin DOMAIN gt)

\* the fields of a Metrics of scripts/metrics.py and of the dict of
\* leaderboard/api.py, each a score or the number of samples that were used
ScoreFields ==
    {"status", "model", "u_precision", "u_recall", "u_f1", "c_precision", "c_recall",
     "c_f1", "accuracy", "macro_f1", "ece", "brier_score", "n_samples",
     "avg_latency_ms"}

\* C23: the result of compute_metrics exposes the number of predictions left
\* out because the ground truth has no entry for their sample_id: some field
\* of the result, other than its scores and its sample count, holds that number.
C23_ExclusionCountExposed ==
    call.fn \in {"scripts_compute_metrics", "leaderboard_compute_metrics"} =>
        \E f \in DOMAIN out \ ScoreFields : out[f] = Len(ExcludedPredictions)

\* ------------------------------------------------------------------------
\* Claims about the rank submit_predictions returns
\* ------------------------------------------------------------------------

\* C26: the rank submit_predictions returns is the rank of the entry just
\* submitted: on every save, the rank in the response is the rank field of the
\* entry of the written collection that has the (model, organization) key of
\* the submission, also when another organization has an entry of that model.
C26_RankOfSubmitted ==
    [][\A w \in Workers :
        (pc[w] = "loaded" /\ pc'[w] = "idle") =>
            \E i \in 1..Len(file') :
                /\ KeyOf(file'[i]) = KeyOf(ent[w])
                /\ ret'.rank = file'[i].rank
      ]_vars

\* ------------------------------------------------------------------------
\* enterprise/security.py: RateLimiter
\* ------------------------------------------------------------------------

\* self.limits: requests per minute of each tier
Limits == [pilot |-> 5, starter |-> 20, pro |-> 100, enterprise |-> 500]

\* self.limits.get(tier, 5)
LimitOf(tier) == IF tier \in DOMAIN Limits THEN Limits[tier] ELSE 5

\* window = 60
Window == 60

\* self.requests.get(api_key, [])
StampsOf(reqs, api_key) == IF api_key \in DOMAIN reqs THEN reqs[api_key] ELSE << >>

\* [ts for ts in self.requests[api_key] if now - ts < window]
Kept(stamps, now) == SelectSeq(stamps, LAMBDA ts : now - ts < Window)

\* self.requests[api_key] = stamps
WithStamps(reqs, api_key, stamps) ==
    [k \in DOMAIN reqs \cup {api_key} |-> IF k = api_key THEN stamps ELSE reqs[k]]

\* a check that admits one request more than the limit
CheckPastLimit(reqs, api_key, tier, now) ==
    LET kept == Kept(StampsOf(reqs, api_key), now)
    IN  IF Len(kept) > LimitOf(tier)
        THEN [allowed |-> FALSE, requests |-> WithStamps(reqs, api_key, kept)]
        ELSE [allowed |-> TRUE,
              requests |-> WithStamps(reqs, api_key, Append(kept, now))]

\* RateLimiter.check(api_key, tier) at time now: whether the request is
\* allowed, and self.requests afterwards
Check(reqs, api_key, tier, now) ==
    LET kept == Kept(StampsOf(reqs, api_key), now)
    IN  IF Len(kept) >= LimitOf(tier)
        THEN [allowed |-> FALSE, requests |-> WithStamps(reqs, api_key, kept)]
        ELSE [allowed |-> TRUE,
              requests |-> WithStamps(reqs, api_key, Append(kept, now))]

\* RateLimiter.get_remaining(api_key, tier)
GetRemaining(reqs, api_key, tier) ==
    LET current == Len(StampsOf(reqs, api_key))
    IN  IF LimitOf(tier) - current > 0 THEN LimitOf(tier) - current ELSE 0

\* the api keys in use, and the tiers a caller names ("trial" is no tier)
ApiKeys == {"key_a", "key_b"}

Tiers == {"pilot", "starter", "trial"}

\* time.time() moves on by Tick seconds at a time, MaxTicks times
Tick == 30

MaxTicks == 2

\* the calls that check allows, over all keys
MaxAllowed == 6

Allowed ==
    Cardinality({c \in ApiKeys \X (1..MaxAllowed) : c[2] <= Len(allowed_log[c[1]])})

RateLimiterInit ==
    /\ LbAtRest
    /\ MetricsAtRest
    /\ EnterpriseAtRest
    /\ requests = << >>
    /\ time = 0
    /\ allowed_log = [k \in ApiKeys |-> << >>]

\* limiter.check(api_key, tier), as the rate_limit wrapper calls it
CallCheck(api_key, tier) ==
    /\ Allowed < MaxAllowed
    /\ LET checked == Check(requests, api_key, tier, time)
       IN  /\ requests' = checked.requests
           /\ out' = [status |-> "ok", allowed |-> checked.allowed]
           /\ allowed_log' = IF checked.allowed
                             THEN [allowed_log EXCEPT ![api_key] = Append(@, time)]
                             ELSE allowed_log
    /\ call' = [fn |-> "check", target |-> api_key, tier |-> tier]
    /\ UNCHANGED <<lbVars, entVars, given, time>>

\* limiter.get_remaining(api_key, tier)
CallGetRemaining(api_key, tier) ==
    /\ call' = [fn |-> "get_remaining", target |-> api_key, tier |-> tier]
    /\ out' = [status |-> "ok", value |-> GetRemaining(requests, api_key, tier)]
    /\ UNCHANGED <<lbVars, entVars, given, rlVars>>

\* time passes
Advance ==
    /\ time < MaxTicks * Tick
    /\ time' = time + Tick
    /\ UNCHANGED <<lbVars, entVars, mVars, requests, allowed_log>>

RateLimiterNext ==
    \/ \E api_key \in ApiKeys, tier \in Tiers : CallCheck(api_key, tier)
    \/ \E api_key \in ApiKeys, tier \in Tiers : CallGetRemaining(api_key, tier)
    \/ Advance

RateLimiterSpec == RateLimiterInit /\ [][RateLimiterNext]_vars

\* ------------------------------------------------------------------------
\* Claims about the RateLimiter
\* ------------------------------------------------------------------------

\* the calls of a key that check allowed less than Window seconds before now
AllowedInWindow(api_key, now) == Len(Kept(allowed_log[api_key], now))

\* C24: get_remaining(api_key, tier) returns the number of requests still
\* allowed in the current window: whenever it is called, it returns
\* max(0, limit(tier) - the number of allowed requests of the key in the last
\* 60 seconds), also when older requests have left the window since the last
\* check.
C24_RemainingInWindow ==
    [][(call'.fn = "get_remaining" /\ rlVars' = rlVars) =>
          LET left == LimitOf(call'.tier) - AllowedInWindow(call'.target, time)
          IN  out'.value = IF left > 0 THEN left ELSE 0
      ]_vars

\* a step of check for the key
CheckStep(api_key) == call'.fn = "check" /\ call'.target = api_key /\ time' = time

PRICING ==
    [pilot |-> [evaluations |-> 1], starter |-> [evaluations |-> 10],
     pro |-> [evaluations |-> 100], enterprise |-> [evaluations |-> -1]]

\* a customer of keys.json. In place of expires_at it holds `expired`: whether
\* datetime.fromisoformat(customer["expires_at"]) < datetime.utcnow()
Customer(customer_id, tier) ==
    [customer_id |-> customer_id, tier |-> tier, expired |-> FALSE,
     evaluations_used |-> 0]

\* verify_api_key: the HTTPException it raises, or code 200 and the customer
VerifyApiKey(keys, x_api_key) ==
    IF x_api_key \notin DOMAIN keys
    THEN [code |-> 401, detail |-> "Invalid API key"]
    ELSE LET customer == keys[x_api_key]
             limit == PRICING[customer.tier].evaluations
         IN  IF customer.expired
             THEN [code |-> 403, detail |-> "Subscription expired"]
             ELSE IF limit # -1 /\ customer.evaluations_used >= limit
             THEN [code |-> 403, detail |-> "Evaluation limit reached"]
             ELSE [code |-> 200, detail |-> "", customer |-> customer]

\* the ECE loop of compute_metrics, the one of leaderboard/api.py
EntEce(rows) == LbEce(rows)

\* compute_metrics(predictions, ground_truth); scores in ten-thousandths
EntComputeMetrics(predictions, ground_truth) ==
    LET m == LbMatched(predictions, ground_truth)
        rows == [k \in 1..Len(m) |->
                    [t |-> ground_truth[m[k].id], p |-> m[k].label, c |-> m[k].confidence]]
        per_class == [label \in Labels |->
                         LET c == EntPerClass(rows, label)
                         IN  [precision |-> Round4(c.precision),
                              recall |-> Round4(c.recall), f1 |-> Round4(c.f1)]]
        correct == Count(rows, LAMBDA r : r.t = r.p)
    IN  IF rows = << >> THEN [status |-> "ValueError"]
        ELSE [status |-> "ok",
              per_class |-> per_class,
              accuracy |-> Round4(IntDiv(correct, Len(rows))),
              unknown_detection |-> per_class["UNKNOWN"],
              calibration |->
                  [ece |-> Round4(EntEce(rows)),
                   mean_confidence |->
                       Round4(IntDiv(SumInt([k \in 1..Len(rows) |-> rows[k].c]),
                                     100 * Len(rows)))],
              n_samples |-> Len(rows)]

\* compute_risk_score(metrics)
ComputeRiskScore(metrics) ==
    LET u_recall == metrics.unknown_detection.recall
        ece == metrics.calibration.ece
        unknown_risk == IF u_recall < 1000 THEN 50
                        ELSE IF u_recall < 3000 THEN 35
                        ELSE IF u_recall < 5000 THEN 20
                        ELSE IF u_recall < 7000 THEN 10 ELSE 0
        calibration_risk == IF ece > 3000 THEN 30
                            ELSE IF ece > 2000 THEN 20
                            ELSE IF ece > 1000 THEN 10 ELSE 0
        accuracy_risk == IF metrics.accuracy < 3000 THEN 20
                         ELSE IF metrics.accuracy < 5000 THEN 10 ELSE 0
        risk_score == unknown_risk + calibration_risk + accuracy_risk
    IN  IF risk_score >= 70 THEN "CRITICAL"
        ELSE IF risk_score >= 50 THEN "HIGH"
        ELSE IF risk_score >= 30 THEN "MEDIUM"
        ELSE IF risk_score >= 10 THEN "LOW"
        ELSE "MINIMAL"

\* generate_recommendations(metrics, risk_score), each text by its subject
GenerateRecommendations(metrics, risk_score) ==
    LET recs ==
            (IF metrics.unknown_detection.recall < 3000
             THEN << "unknown detection" >> ELSE << >>)
            \o (IF metrics.calibration.ece > 2000 THEN << "calibration" >> ELSE << >>)
            \o (IF metrics.per_class["CONTRADICTION"].f1 < 1000
                THEN << "contested topics" >> ELSE << >>)
            \o (IF risk_score \in {"CRITICAL", "HIGH"}
                THEN << "not recommended" >> ELSE << >>)
    IN  IF recs = << >> THEN << "acceptable" >> ELSE recs

\* the prediction lists a request may carry: one with a sample of the test
\* set, one without
EvaluatedPredictions ==
    { << LbPred("s1", "UNKNOWN", 90), LbPred("x", "KNOWN", 100) >>,
      << LbPred("x", "UNKNOWN", 90) >> }

\* compute_metrics(predictions, ground_truth) of every request and ground truth
EvaluatedMetrics ==
    [g \in {EmptyGT, TestGT} |->
        [p \in EvaluatedPredictions |-> EntComputeMetrics(p, g)]]

NoMetrics == [status |-> "None"]

\* the evaluation record submit_evaluation creates, with the predictions it
\* saves beside it; "None" stands for None and for a key the dict lacks
NewEvaluation(customer, predictions) ==
    [customer_id |-> customer.customer_id,
     predictions |-> predictions,
     status |-> "pending",
     completed_at |-> "None",
     metrics |-> NoMetrics,
     risk_score |-> "None",
     recommendations |-> << >>,
     error |-> "None"]

\* process_evaluation where an exception of the computation is not caught
ProcessedUncaught(evaluation, ground_truth) ==
    LET metrics == EvaluatedMetrics[ground_truth][evaluation.predictions]
    IN  IF metrics.status = "ok"
        THEN [evaluation |->
                  [evaluation EXCEPT
                      !.status = "completed",
                      !.completed_at = "utcnow",
                      !.metrics = metrics,
                      !.risk_score = ComputeRiskScore(metrics),
                      !.recommendations =
                          GenerateRecommendations(metrics, ComputeRiskScore(metrics))],
              report |-> TRUE]
        ELSE [evaluation |-> evaluation, report |-> FALSE]

\* process_evaluation where the report is not written
ProcessedWithoutReport(evaluation, ground_truth) ==
    LET metrics == EvaluatedMetrics[ground_truth][evaluation.predictions]
    IN  IF metrics.status = "ok"
        THEN [evaluation |->
                  [evaluation EXCEPT
                      !.status = "completed",
                      !.completed_at = "utcnow",
                      !.metrics = metrics,
                      !.risk_score = ComputeRiskScore(metrics),
                      !.recommendations =
                          GenerateRecommendations(metrics, ComputeRiskScore(metrics))],
              report |-> FALSE]
        ELSE [evaluation |->
                  [evaluation EXCEPT !.status = "failed",
                                     !.error = "No matching predictions found"],
              report |-> FALSE]

\* the try/except of process_evaluation on the evaluation it marked as
\* processing: the evaluation it saves, and whether it wrote the report
Processed(evaluation, ground_truth) ==
    LET metrics == EvaluatedMetrics[ground_truth][evaluation.predictions]
    IN  IF metrics.status = "ok"
        THEN [evaluation |->
                  [evaluation EXCEPT
                      !.status = "completed",
                      !.completed_at = "utcnow",
                      !.metrics = metrics,
                      !.risk_score = ComputeRiskScore(metrics),
                      !.recommendations =
                          GenerateRecommendations(metrics, ComputeRiskScore(metrics))],
              report |-> TRUE]
        ELSE [evaluation |->
                  [evaluation EXCEPT !.status = "failed",
                                     !.error = "No matching predictions found"],
              report |-> FALSE]

\* report_url: the id in /enterprise/report/{evaluation_id}; 0 stands for None
ReportUrl(evaluation_id, evaluation) ==
    IF evaluation.status = "completed" THEN evaluation_id ELSE 0

\* the EvaluationResult of get_status and list_evaluations; model_name,
\* organization and submitted_at, which the handlers copy, are left out
EvaluationResult(evaluation_id, evaluation) ==
    [evaluation_id |-> evaluation_id,
     status |-> evaluation.status,
     completed_at |-> evaluation.completed_at,
     metrics |-> evaluation.metrics,
     risk_score |-> evaluation.risk_score,
     report_url |-> ReportUrl(evaluation_id, evaluation)]

\* no ownership check
OwnsAny(evaluation, customer) == TRUE

\* evaluation["customer_id"] == customer["customer_id"]
Owns(evaluation, customer) == evaluation.customer_id = customer.customer_id

\* the evaluations of the customer, newest first
Listed(evaluations, customer) ==
    LET mine == SelectSeq([i \in 1..Len(evaluations) |-> i],
                          LAMBDA i : Owns(evaluations[i], customer))
    IN  [j \in 1..Len(mine) |->
            EvaluationResult(mine[Len(mine) + 1 - j], evaluations[mine[Len(mine) + 1 - j]])]

\* ------------------------------------------------------------------------
\* The evaluation service: state and steps
\* ------------------------------------------------------------------------

\* the customers create_customer makes: secrets.token_hex draws the
\* customer_id, and the api key "onto_..." with it
CustomerIds == {"A", "B"}

ApiKeyOf == [A |-> "onto_A", B |-> "onto_B"]

ApiKeysIssued == {ApiKeyOf[c] : c \in CustomerIds}

\* the tier each of them is created on
TierOf == [A |-> "pilot", B |-> "enterprise"]

\* evaluation ids are 1, 2, ... in the order secrets.token_hex drew them
MaxEvaluations == 2

EvaluationIds == 1..MaxEvaluations

\* data/test.jsonl holds the test set
EnterpriseInit ==
    /\ gt = TestGT
    /\ file = << >>
    /\ pc = [w \in Workers |-> "idle"]
    /\ loc = [w \in Workers |-> << >>]
    /\ ent = [w \in Workers |-> NoEntry]
    /\ ret = NoResponse
    /\ nsub = 0
    /\ firstIns = << >>
    /\ raced = FALSE
    /\ MetricsAtRest
    /\ RateLimiterAtRest
    /\ EnterpriseAtRest

\* the answer of a handler: an HTTPException (code, detail) or code 200 with
\* the EvaluationResults in `body` and the report file sent in `report` (0: none)
Reply(handler, x_api_key, evaluation_id, code, detail, body, report) ==
    [handler |-> handler, api_key |-> x_api_key, evaluation_id |-> evaluation_id,
     code |-> code, detail |-> detail, body |-> body, report |-> report]

\* python enterprise/api.py create-customer <company> <email> <tier>
CreateCustomer(customer_id) ==
    /\ ApiKeyOf[customer_id] \notin DOMAIN keys_file
    /\ keys_file' = [k \in DOMAIN keys_file \cup {ApiKeyOf[customer_id]} |->
                        IF k = ApiKeyOf[customer_id]
                        THEN Customer(customer_id, TierOf[customer_id])
                        ELSE keys_file[k]]
    /\ UNCHANGED <<lbVars, mVars, rlVars, eval_files, report_files, task, resp>>

\* time passes the expires_at of a customer
Expire(x_api_key) ==
    /\ x_api_key \in DOMAIN keys_file
    /\ ~keys_file[x_api_key].expired
    /\ keys_file' = [keys_file EXCEPT ![x_api_key].expired = TRUE]
    /\ UNCHANGED <<lbVars, mVars, rlVars, eval_files, report_files, task, resp>>

\* POST /enterprise/evaluate
SubmitEvaluation(x_api_key, predictions) ==
    /\ Len(eval_files) < MaxEvaluations
    /\ LET auth == VerifyApiKey(keys_file, x_api_key)
           evaluation_id == Len(eval_files) + 1
       IN  IF auth.code # 200
           THEN /\ resp' = Reply("submit_evaluation", x_api_key, 0, auth.code,
                                 auth.detail, << >>, 0)
                /\ UNCHANGED <<eval_files, task>>
           ELSE /\ eval_files' = Append(eval_files,
                                        NewEvaluation(auth.customer, predictions))
                /\ task' = Append(task, "queued")
                /\ resp' = Reply("submit_evaluation", x_api_key, evaluation_id, 200,
                                 "", << >>, 0)
    /\ UNCHANGED <<lbVars, mVars, rlVars, keys_file, report_files>>

\* process_evaluation up to its first save: the evaluation is processing
ProcessStart(evaluation_id) ==
    /\ evaluation_id \in 1..Len(task)
    /\ task[evaluation_id] = "queued"
    /\ eval_files' = [eval_files EXCEPT ![evaluation_id].status = "processing"]
    /\ task' = [task EXCEPT ![evaluation_id] = "processing"]
    /\ UNCHANGED <<lbVars, mVars, rlVars, keys_file, report_files, resp>>

\* the rest of process_evaluation: the try/except and the last save
ProcessFinish(evaluation_id) ==
    /\ evaluation_id \in 1..Len(task)
    /\ task[evaluation_id] = "processing"
    /\ LET done == Processed(eval_files[evaluation_id], gt)
       IN  /\ eval_files' = [eval_files EXCEPT ![evaluation_id] = done.evaluation]
           /\ report_files' = IF done.report THEN report_files \cup {evaluation_id}
                              ELSE report_files
    /\ task' = [task EXCEPT ![evaluation_id] = "done"]
    /\ UNCHANGED <<lbVars, mVars, rlVars, keys_file, resp>>

\* GET /enterprise/status/{evaluation_id}
GetStatus(x_api_key, evaluation_id) ==
    /\ LET auth == VerifyApiKey(keys_file, x_api_key)
       IN  resp' =
             IF auth.code # 200
             THEN Reply("get_status", x_api_key, evaluation_id, auth.code, auth.detail,
                        << >>, 0)
             ELSE IF evaluation_id \notin 1..Len(eval_files)
             THEN Reply("get_status", x_api_key, evaluation_id, 404,
                        "Evaluation not found", << >>, 0)
             ELSE IF ~Owns(eval_files[evaluation_id], auth.customer)
             THEN Reply("get_status", x_api_key, evaluation_id, 403, "Access denied",
                        << >>, 0)
             ELSE Reply("get_status", x_api_key, evaluation_id, 200, "",
                        << EvaluationResult(evaluation_id, eval_files[evaluation_id]) >>,
                        0)
    /\ UNCHANGED <<lbVars, mVars, rlVars, keys_file, eval_files, report_files, task>>

\* GET /enterprise/report/{evaluation_id}
GetReport(x_api_key, evaluation_id) ==
    /\ LET auth == VerifyApiKey(keys_file, x_api_key)
       IN  resp' =
             IF auth.code # 200
             THEN Reply("get_report", x_api_key, evaluation_id, auth.code, auth.detail,
                        << >>, 0)
             ELSE IF evaluation_id \notin 1..Len(eval_files)
             THEN Reply("get_report", x_api_key, evaluation_id, 404,
                        "Evaluation not found", << >>, 0)
             ELSE IF ~Owns(eval_files[evaluation_id], auth.customer)
             THEN Reply("get_report", x_api_key, evaluation_id, 403, "Access denied",
                        << >>, 0)
             ELSE IF eval_files[evaluation_id].status # "completed"
             THEN Reply("get_report", x_api_key, evaluation_id, 400,
                        "Evaluation not completed", << >>, 0)
             ELSE IF evaluation_id \notin report_files
             THEN Reply("get_report", x_api_key, evaluation_id, 404,
                        "Report not found", << >>, 0)
             ELSE Reply("get_report", x_api_key, evaluation_id, 200, "", << >>,
                        evaluation_id)
    /\ UNCHANGED <<lbVars, mVars, rlVars, keys_file, eval_files, report_files, task>>

\* GET /enterprise/evaluations
ListEvaluations(x_api_key) ==
    /\ LET auth == VerifyApiKey(keys_file, x_api_key)
       IN  resp' =
             IF auth.code # 200
             THEN Reply("list_evaluations", x_api_key, 0, auth.code, auth.detail,
                        << >>, 0)
             ELSE Reply("list_evaluations", x_api_key, 0, 200, "",
                        Listed(eval_files, auth.customer), 0)
    /\ UNCHANGED <<lbVars, mVars, rlVars, keys_file, eval_files, report_files, task>>

EnterpriseNext ==
    \/ \E customer_id \in CustomerIds : CreateCustomer(customer_id)
    \/ \E x_api_key \in ApiKeysIssued : Expire(x_api_key)
    \/ \E x_api_key \in ApiKeysIssued, predictions \in EvaluatedPredictions :
           SubmitEvaluation(x_api_key, predictions)
    \/ \E evaluation_id \in EvaluationIds : ProcessStart(evaluation_id)
    \/ \E evaluation_id \in EvaluationIds : ProcessFinish(evaluation_id)
    \/ \E x_api_key \in ApiKeysIssued, evaluation_id \in EvaluationIds :
           GetStatus(x_api_key, evaluation_id)
    \/ \E x_api_key \in ApiKeysIssued, evaluation_id \in EvaluationIds :
           GetReport(x_api_key, evaluation_id)
    \/ \E x_api_key \in ApiKeysIssued : ListEvaluations(x_api_key)

EnterpriseSpec == EnterpriseInit /\ [][EnterpriseNext]_vars

\* the steps that change what the service keeps: the handlers that only
\* read are left out
LifecycleNext ==
    \/ \E customer_id \in CustomerIds : CreateCustomer(customer_id)
    \/ \E x_api_key \in ApiKeysIssued : Expire(x_api_key)
    \/ \E x_api_key \in ApiKeysIssued, predictions \in EvaluatedPredictions :
           SubmitEvaluation(x_api_key, predictions)
    \/ \E evaluation_id \in EvaluationIds : ProcessStart(evaluation_id)
    \/ \E evaluation_id \in EvaluationIds : ProcessFinish(evaluation_id)

\* the server runs every background task it was handed, to its end
EnterpriseLiveSpec ==
    /\ EnterpriseInit
    /\ [][LifecycleNext]_vars
    /\ \A evaluation_id \in EvaluationIds :
           /\ WF_vars(ProcessStart(evaluation_id))
           /\ WF_vars(ProcessFinish(evaluation_id))

\* ------------------------------------------------------------------------
\* Claims about the evaluation service
\* ------------------------------------------------------------------------

\* the evaluations submit_evaluation accepted for the customer
AcceptedFor(customer_id) ==
    {i \in 1..Len(eval_files) : eval_files[i].customer_id = customer_id}

\* C27: the evaluation quota of a tier is enforced: a customer whose tier
\* has a finite limit L (pilot 1, starter 10, pro 100) never has more than L
\* accepted calls of submit_evaluation.
C27_QuotaEnforced ==
    \A k \in DOMAIN keys_file :
        LET limit == PRICING[keys_file[k].tier].evaluations
        IN  limit # -1 => Cardinality(AcceptedFor(keys_file[k].customer_id)) <= limit

Terminal == {"completed", "failed"}

\* the moves of EvaluationStatus the claim allows
Forward(from, to) ==
    \/ from = to
    \/ from = "pending" /\ to = "processing"
    \/ from = "processing" /\ to \in Terminal

\* C28: the saved status of an evaluation only moves along
\* pending -> processing -> (completed or failed): an accepted evaluation
\* starts as pending, every later save keeps the status or moves it one step
\* forward, completed and failed never change again, and every accepted
\* evaluation whose background task runs reaches completed or failed.
C28_StatusMovesForward ==
    /\ [][/\ Len(eval_files') >= Len(eval_files)
          /\ \A i \in 1..Len(eval_files') :
                IF i <= Len(eval_files)
                THEN Forward(eval_files[i].status, eval_files'[i].status)
                ELSE eval_files'[i].status = "pending"
        ]_vars
    /\ \A i \in EvaluationIds :
           (i <= Len(eval_files))
               ~> (i <= Len(eval_files) /\ eval_files[i].status \in Terminal)

\* two accepted evaluations have been processed, one to completed, one to failed
C28_Witness ==
    /\ Len(eval_files) = 2
    /\ eval_files[1].status = "completed"
    /\ eval_files[2].status = "failed"
    /\ task = << "done", "done" >>

\* a step of a handler that only reads
ReadStep(handler) ==
    /\ resp'.handler = handler
    /\ <<keys_file, eval_files, report_files, task>>' =
           <<keys_file, eval_files, report_files, task>>

\* C29: in every state a completed evaluation has metrics, a risk_score and
\* a completed_at that are not null, and its report file exists; so get_report
\* by its owner never answers 'Report not found' for it; and every
\* EvaluationResult of get_status and list_evaluations has a report_url that
\* is not null exactly when its status is completed.
C29_CompletedHasReport ==
    /\ [](\A i \in 1..Len(eval_files) :
             eval_files[i].status = "completed" =>
                 /\ eval_files[i].metrics.status = "ok"
                 /\ eval_files[i].risk_score # "None"
                 /\ eval_files[i].completed_at # "None"
                 /\ i \in report_files)
    /\ [][/\ (/\ ReadStep("get_report")
              /\ resp'.evaluation_id \in 1..Len(eval_files)
              /\ eval_files[resp'.evaluation_id].status = "completed"
              /\ resp'.api_key \in DOMAIN keys_file
              /\ Owns(eval_files[resp'.evaluation_id], keys_file[resp'.api_key]))
                 => resp'.detail # "Report not found"
          /\ (ReadStep("get_status") \/ ReadStep("list_evaluations")) =>
                 \A j \in 1..Len(resp'.body) :
                     /\ resp'.body[j].status
                            = eval_files[resp'.body[j].evaluation_id].status
                     /\ (resp'.body[j].report_url # 0)
                            <=> (resp'.body[j].status = "completed")
        ]_vars

\* list_evaluations has answered a customer with a completed evaluation, which
\* has its report, and a newer one that is not completed
C29_Witness ==
    /\ resp.handler = "list_evaluations"
    /\ resp.code = 200
    /\ Len(resp.body) = 2
    /\ resp.body[1].status # "completed" /\ resp.body[1].report_url = 0
    /\ resp.body[2].status = "completed" /\ resp.body[2].report_url = 1
    /\ eval_files[1].status = "completed"
    /\ 1 \in report_files

\* a step of get_status or get_report with the key of a customer, for an
\* evaluation of another customer
ForeignRequest ==
    /\ ReadStep("get_status") \/ ReadStep("get_report")
    /\ resp'.api_key \in DOMAIN keys_file
    /\ resp'.evaluation_id \in 1..Len(eval_files)
    /\ eval_files[resp'.evaluation_id].customer_id
           # keys_file[resp'.api_key].customer_id

\* what a handler returns is the caller's own: the EvaluationResults and the
\* report of a response all belong to the customer whose key was used
OnlyOwn ==
    (ReadStep("get_status") \/ ReadStep("get_report") \/ ReadStep("list_evaluations")) =>
        /\ \A j \in 1..Len(resp'.body) :
               /\ resp'.api_key \in DOMAIN keys_file
               /\ eval_files[resp'.body[j].evaluation_id].customer_id
                      = keys_file[resp'.api_key].customer_id
        /\ resp'.report # 0 =>
               /\ resp'.api_key \in DOMAIN keys_file
               /\ eval_files[resp'.report].customer_id
                      = keys_file[resp'.api_key].customer_id

\* C30 as stated: evaluations are isolated per customer: with the key of one
\* customer no handler returns the status, metrics or report of another
\* customer's evaluation; get_status and get_report answer such a request
\* with 403 'Access denied', and list_evaluations leaves the evaluation out.
C30_AccessDenied ==
    [][/\ OnlyOwn
       /\ ForeignRequest => (resp'.code = 403 /\ resp'.detail = "Access denied")
      ]_vars

\* C30, amended: with the key of one customer no handler returns the status,
\* metrics or report of another customer's evaluation, and list_evaluations
\* leaves it out; get_status and get_report answer such a request with 403
\* 'Access denied' when the key passes verify_api_key, and with the 403
\* 'Subscription expired' of verify_api_key when the caller's subscription has
\* expired.
C30_Isolated ==
    [][/\ OnlyOwn
       /\ ForeignRequest =>
             /\ resp'.code = 403
             /\ resp'.body = << >>
             /\ resp'.report = 0
             /\ resp'.detail = IF keys_file[resp'.api_key].expired
                               THEN "Subscription expired" ELSE "Access denied"
      ]_vars

\* customer A has asked for the status of a completed evaluation of customer B
\* and was denied, and B has evaluations
C30_Witness ==
    /\ resp.handler = "get_status"
    /\ resp.api_key = "onto_A"
    /\ resp.code = 403
    /\ resp.detail = "Access denied"
    /\ resp.evaluation_id = 1
    /\ Len(eval_files) >= 1
    /\ eval_files[1].customer_id = "B"
    /\ eval_files[1].status = "completed"

====
